---- MODULE Spec2Model ----
(***************************************************************************)
(* The tiering cache of babylon.rag.lifecycle (class LifecycleManager):    *)
(* three ordered containers (Immediate, Active, Background), the           *)
(* transition validator, the consistency check, the pressure-driven        *)
(* limits, the demotion selector and the rebalancer.                       *)
(*                                                                         *)
(* Objects are identified with their ids (distinct objects have distinct   *)
(* ids).  An OrderedDict is the sequence of its keys, oldest insertion     *)
(* first; a plain dict is a function whose DOMAIN is its key set.  Times   *)
(* are whole seconds of time.time(); pressures are hundredths.             *)
(***************************************************************************)
EXTENDS Integers, Sequences, FiniteSets, TLC

\* ------------------------------------------------------------ bounds
\* Objects a caller may hand to the cache for the first time.
NumFresh == 2
\* Calls and clock advances explored from the empty cache (Spec).
MaxSteps == 3
\* Calls and clock advances explored after the load script (SpecLoaded).
MaxLoadedSteps == 2
\* Activations of a fill before and between which the clock may advance
\* (SpecFill).
MaxFillTicks == 1
\* set_memory_pressure calls explored after the load script (SpecPressure).
MaxPressureCalls == 2
\* Calls and clock advances explored around the demotion selector (SpecSelect).
MaxSelectSteps == 4
\* Largest max_retries handed to retry_on_exception (SpecRetry).
MaxRetries == 2
\* Cache events recorded by the metrics collector (SpecMetrics).
MaxEvents == 4
\* Calls made on the demoted object after the scripted load (SpecEvict).
MaxEvictSteps == 4

\* ------------------------------------------- program constants
BaseImmediateLimit == 30
BaseActiveLimit == 200
BaseBackgroundLimit == 500
ExtremeImmediateFloor == 4
ExtremeActiveFloor == 20
ExtremeBackgroundFloor == 40
HighImmediateFloor == 5
HighActiveFloor == 25
HighBackgroundFloor == 50
NormalImmediateFloor == 20
NormalActiveFloor == 60
NormalBackgroundFloor == 120
\* rebalance: old_threshold = current_time - 300
StaleWindow == 300
\* time.time() when the manager is constructed: seconds since 1970, far
\* beyond the staleness window (scaled down to keep ages small).
ClockStart == 1000

ObjectState == {"INACTIVE", "BACKGROUND", "ACTIVE", "IMMEDIATE"}
\* obj.state of an object that has no state attribute yet
MISSING == "MISSING"
\* obj.state that is not an ObjectState member
INVALID == "INVALID"
\* Python's None as a returned id / as a timestamp / as an age threshold
NoneId == 0
NoneTime == -1
\* the marker of ZeroDivisionError leaving _find_demotion_candidate
ZeroDivision == -1

\* ------------------------------------------------------- the objects
\* The load script leaves one object more than the limit under pressure 0.95
\* in every tier.
NumImmediateBallast == 5
NumActiveBallast == 21
NumBackgroundBallast == 51

FreshObjects == 1..NumFresh
ImmediateBallast == (NumFresh + 1)..(NumFresh + NumImmediateBallast)
ActiveBallast ==
    (NumFresh + NumImmediateBallast + 1)..(NumFresh + NumImmediateBallast + NumActiveBallast)
BackgroundBallast ==
    (NumFresh + NumImmediateBallast + NumActiveBallast + 1)..
        (NumFresh + NumImmediateBallast + NumActiveBallast + NumBackgroundBallast)
\* an object whose state attribute is not an ObjectState
BadStateObj == NumFresh + NumImmediateBallast + NumActiveBallast + NumBackgroundBallast + 1
\* an object without an id attribute
NoIdObj == 0
Objects == 1..BadStateObj

Priorities == {-1, 0, 5}
\* pressures in hundredths: normal, high, extreme, and two out of range
Pressures == {0, 50, 85, 95, 150, -10}
\* how far the clock may advance between two calls
TickSteps == {1, StaleWindow + 1}

VARIABLES
    immediate_context,        \* OrderedDict: sequence of ids
    active_cache,             \* OrderedDict: sequence of ids
    background_context,       \* OrderedDict: sequence of ids
    priorities,               \* dict id -> int
    last_accessed,            \* dict id -> time
    obj_state,                \* the state attribute of every object
    obj_last_accessed,        \* the last_accessed attribute of every object
    immediate_limit,
    active_limit,
    background_limit,
    memory_pressure,
    memory_pressure_history,
    peak_memory_pressure,
    cache_hits,
    cache_misses,
    tier_transitions,
    operation_counts,         \* dict metric name -> calls timed
    operation_times,          \* dict metric name -> number of samples kept
    last_state_check,
    testing,                  \* "pytest" in sys.modules
    clock,                    \* time.time()
    nsteps,                   \* calls and clock advances so far
    last,                     \* the last call: what was called and how it ended
    max_retries,              \* retry_on_exception: its arguments
    delay,
    exceptions,
    attempt,                  \* wrapper: the loop index
    last_exception,           \* wrapper: the last exception caught, or "None"
    wrapper_pc,               \* wrapper: "idle", "try", "sleep", "returned", "raised"
    wrapper_result,           \* wrapper: the value returned or exception raised
    outcomes,                 \* what each invocation of func did, in order
    slept,                    \* seconds spent in time.sleep by the wrapper
    hits,                     \* MetricsCollector: Counter cache type -> hits
    misses,                   \* MetricsCollector: Counter cache type -> misses
    reported,                 \* MetricsCollector: what its last call returned
    get_pc,                   \* a get_object running beside an activate: its position
    activate_pc,              \* an activate running beside a get_object: its position
    race_id,                  \* the id both of them were called with (NoneId: none)
    race_priority,            \* the priority that activate was called with
    interleaved               \* one of them has run between two steps of the other

vars == <<immediate_context, active_cache, background_context, priorities,
          last_accessed, obj_state, obj_last_accessed, immediate_limit,
          active_limit, background_limit, memory_pressure,
          memory_pressure_history, peak_memory_pressure, cache_hits,
          cache_misses, tier_transitions, operation_counts, operation_times,
          last_state_check, testing, clock, nsteps, last, max_retries, delay,
          exceptions, attempt, last_exception, wrapper_pc, wrapper_result,
          outcomes, slept, hits, misses, reported, get_pc, activate_pc,
          race_id, race_priority, interleaved>>

\* ------------------------------------------------------- containers
Keys(ctx) == {ctx[i] : i \in 1..Len(ctx)}
Has(ctx, id) == \E i \in 1..Len(ctx) : ctx[i] = id
\* OrderedDict.pop(id, None)
PopKey(ctx, id) == SelectSeq(ctx, LAMBDA k : k # id)
\* OrderedDict[id] = obj: a new key goes last, a present key keeps its place
SetKey(ctx, id) == IF Has(ctx, id) THEN ctx ELSE Append(ctx, id)
\* dict.get(k, default), dict[k] = v, dict.pop(k, None)
DictGet(d, k, default) == IF k \in DOMAIN d THEN d[k] ELSE default
DictSet(d, k, v) == [x \in (DOMAIN d) \cup {k} |-> IF x = k THEN v ELSE d[x]]
DictPop(d, k) == [x \in (DOMAIN d) \ {k} |-> d[x]]
EmptyDict == [x \in {} |-> 0]
Max(a, b) == IF a >= b THEN a ELSE b

\* ---------------------------------------------- transition validator
\* a faulty variant: an Inactive object may only go to Immediate
valid_transitions_without_direct_background ==
    [s \in ObjectState |->
        CASE s = "INACTIVE" -> {"IMMEDIATE"}
          [] s = "BACKGROUND" -> {"ACTIVE", "IMMEDIATE", "INACTIVE"}
          [] s = "ACTIVE" -> {"IMMEDIATE", "BACKGROUND", "INACTIVE"}
          [] s = "IMMEDIATE" -> {"ACTIVE", "INACTIVE"}]

\* a faulty variant: an Immediate object may also go to Background directly
valid_transitions_with_immediate_to_background ==
    [s \in ObjectState |->
        CASE s = "INACTIVE" -> {"IMMEDIATE", "BACKGROUND"}
          [] s = "BACKGROUND" -> {"ACTIVE", "IMMEDIATE", "INACTIVE"}
          [] s = "ACTIVE" -> {"IMMEDIATE", "BACKGROUND", "INACTIVE"}
          [] s = "IMMEDIATE" -> {"ACTIVE", "BACKGROUND", "INACTIVE"}]

\* _validate_state_transition: the table of allowed moves
valid_transitions ==
    [s \in ObjectState |->
        CASE s = "INACTIVE" -> {"IMMEDIATE", "BACKGROUND"}
          [] s = "BACKGROUND" -> {"ACTIVE", "IMMEDIATE", "INACTIVE"}
          [] s = "ACTIVE" -> {"IMMEDIATE", "BACKGROUND", "INACTIVE"}
          [] s = "IMMEDIATE" -> {"ACTIVE", "INACTIVE"}]

\* a faulty variant: any target other than the current state is accepted
ValidateAnyMove(state, target_state) ==
    IF state \notin ObjectState THEN "InvalidObjectError"
    ELSE IF target_state = state THEN "StateTransitionError"
    ELSE "ok"

\* _validate_state_transition: the error it raises, or "ok"
ValidateStateTransition(state, target_state) ==
    IF state \notin ObjectState THEN "InvalidObjectError"
    ELSE IF target_state \notin valid_transitions[state] THEN "StateTransitionError"
    ELSE "ok"

\* _validate_object: the error it raises, or "ok"
ValidateObject(obj, st) ==
    IF obj = NoIdObj THEN "InvalidObjectError"
    ELSE IF st[obj] = MISSING THEN "ok"
    ELSE IF st[obj] \notin ObjectState THEN "InvalidObjectError"
    ELSE "ok"

\* _validate_object: an object without a state attribute gets INACTIVE
DefaultedState(obj, st) ==
    IF obj # NoIdObj /\ st[obj] = MISSING THEN [st EXCEPT ![obj] = "INACTIVE"] ELSE st

\* ------------------------------------------------ consistency check
\* a faulty variant: Immediate is not compared with Active
DuplicateObjectsOutsideImmediateActive(imm, act, bg) ==
    (Keys(imm) \cap Keys(bg)) \cup (Keys(act) \cap Keys(bg))

\* _check_state_consistency: the ids found in more than one container
DuplicateObjects(imm, act, bg) ==
    (Keys(imm) \cap Keys(act)) \cup (Keys(imm) \cap Keys(bg)) \cup (Keys(act) \cap Keys(bg))

\* whether _check_state_consistency returns before looking: outside a test
\* run, less than 0.1 s (no whole second) after the last check
CheckSkipped(now) == ~testing /\ now - last_state_check < 1

\* _last_state_check after _check_state_consistency ran at time now
CheckedAt(now) ==
    IF CheckSkipped(now) THEN last_state_check ELSE IF testing THEN 0 ELSE now

\* _check_state_consistency: the error it raises, or "ok"
CheckStateConsistency(now, imm, act, bg) ==
    IF CheckSkipped(now) THEN "ok"
    ELSE IF DuplicateObjects(imm, act, bg) # {} THEN "CorruptStateError"
    ELSE "ok"

\* ------------------------------------------- binary64 arithmetic
\* Python floats are IEEE 754 binary64 and every operation rounds to nearest,
\* ties to even.  A natural number is the sequence of its digits in base
\* 2^12, lowest first, without leading zeros; a non-negative float is
\* [m, e], the number m * 2^e with m of at most 53 binary digits.
Mantissa == 53
DigitBits == 12

RECURSIVE Pow2(_)
Pow2(n) == IF n = 0 THEN 1 ELSE 2 * Pow2(n - 1)
Base == Pow2(DigitBits)

RECURSIVE NNorm(_)
NNorm(a) == IF a = <<>> \/ a[Len(a)] # 0 THEN a ELSE NNorm(SubSeq(a, 1, Len(a) - 1))

RECURSIVE NFromInt(_)
NFromInt(n) == IF n = 0 THEN <<>> ELSE <<n % Base>> \o NFromInt(n \div Base)

RECURSIVE NToInt(_)
NToInt(a) == IF a = <<>> THEN 0 ELSE a[1] + Base * NToInt(Tail(a))

Digit(a, i) == IF 1 <= i /\ i <= Len(a) THEN a[i] ELSE 0

RECURSIVE Carried(_, _, _)
\* the digits of the number whose digit sums are cols, from position i on
Carried(cols, i, carry) ==
    IF i > Len(cols) THEN NFromInt(carry)
    ELSE <<(cols[i] + carry) % Base>> \o Carried(cols, i + 1, (cols[i] + carry) \div Base)

MaxLen(a, b) == IF Len(a) >= Len(b) THEN Len(a) ELSE Len(b)
NAdd(a, b) == Carried([i \in 1..MaxLen(a, b) |-> Digit(a, i) + Digit(b, i)], 1, 0)

RECURSIVE NSubFrom(_, _, _, _)
\* the digits of a - b (a >= b) from position i on, borrow coming in
NSubFrom(a, b, i, borrow) ==
    IF i > Len(a) THEN <<>>
    ELSE LET diff == Digit(a, i) - Digit(b, i) - borrow
         IN  <<diff % Base>> \o NSubFrom(a, b, i + 1, IF diff < 0 THEN 1 ELSE 0)
NSub(a, b) == NNorm(NSubFrom(a, b, 1, 0))

RECURSIVE NLessFrom(_, _, _)
\* a < b for a and b of the same length, deciding from digit i down
NLessFrom(a, b, i) ==
    IF i = 0 THEN FALSE
    ELSE IF a[i] # b[i] THEN a[i] < b[i]
    ELSE NLessFrom(a, b, i - 1)
NLess(a, b) ==
    IF Len(a) # Len(b) THEN Len(a) < Len(b) ELSE NLessFrom(a, b, Len(a))

\* a * 2^n
NShl(a, n) ==
    LET q == n \div DigitBits
        r == n % DigitBits
    IN  NNorm([i \in 1..(Len(a) + q + 1) |->
                  ((Digit(a, i - q) * Pow2(r)) % Base)
                  + (Digit(a, i - q - 1) \div Pow2(DigitBits - r))])
\* floor(a / 2^n)
NShr(a, n) ==
    LET q == n \div DigitBits
        r == n % DigitBits
    IN  IF q >= Len(a) THEN <<>>
        ELSE NNorm([i \in 1..(Len(a) - q) |->
                      (Digit(a, i + q) \div Pow2(r))
                      + (Digit(a, i + q + 1) % Pow2(r)) * Pow2(DigitBits - r)])

RECURSIVE SmallBitLen(_)
SmallBitLen(n) == IF n = 0 THEN 0 ELSE 1 + SmallBitLen(n \div 2)
\* the number of binary digits of a
NBitLen(a) == IF a = <<>> THEN 0 ELSE (Len(a) - 1) * DigitBits + SmallBitLen(a[Len(a)])
\* binary digit i of a, the lowest being digit 1
NBit(a, i) == (Digit(a, (i - 1) \div DigitBits + 1) \div Pow2((i - 1) % DigitBits)) % 2
\* whether one of the n lowest binary digits of a is 1
NLowBits(a, n) == \E i \in 1..n : NBit(a, i) = 1

RECURSIVE ColumnSum(_, _, _, _)
\* the sum of a[i] * b[j + 1 - i] over i from i up
ColumnSum(a, b, j, i) ==
    IF i > Len(a) THEN 0
    ELSE Digit(a, i) * Digit(b, j + 1 - i) + ColumnSum(a, b, j, i + 1)
NMul(a, b) ==
    IF a = <<>> \/ b = <<>> THEN <<>>
    ELSE NNorm(Carried([j \in 1..(Len(a) + Len(b) - 1) |-> ColumnSum(a, b, j, 1)], 1, 0))

\* m * 2^e rounded to the nearest float, ties to even
FRound(m, e) ==
    IF NBitLen(m) <= Mantissa THEN [m |-> m, e |-> e]
    ELSE
        LET drop == NBitLen(m) - Mantissa
            kept == NShr(m, drop)
            half == NBit(m, drop) = 1
            sticky == NLowBits(m, drop - 1)
            up == half /\ (sticky \/ NBit(kept, 1) = 1)
            rounded == IF up THEN NAdd(kept, <<1>>) ELSE kept
        IN  IF NBitLen(rounded) > Mantissa
                THEN [m |-> NShr(rounded, 1), e |-> e + drop + 1]
                ELSE [m |-> rounded, e |-> e + drop]

Aligned(x, e) == NShl(x.m, x.e - e)
MinExp(x, y) == IF x.e <= y.e THEN x.e ELSE y.e

FAdd(x, y) == FRound(NAdd(Aligned(x, MinExp(x, y)), Aligned(y, MinExp(x, y))), MinExp(x, y))
\* x - y for x >= y
FSub(x, y) == FRound(NSub(Aligned(x, MinExp(x, y)), Aligned(y, MinExp(x, y))), MinExp(x, y))
FMul(x, y) == FRound(NMul(x.m, y.m), x.e + y.e)
FLess(x, y) == NLess(Aligned(x, MinExp(x, y)), Aligned(y, MinExp(x, y)))
FMax(x, y) == IF FLess(x, y) THEN y ELSE x
FFromInt(n) == [m |-> NFromInt(n), e |-> 0]
\* int(x): the whole part
FInt(x) == IF x.e >= 0 THEN NToInt(NShl(x.m, x.e)) ELSE NToInt(NShr(x.m, 0 - x.e))

RECURSIVE DivideFrom(_, _, _, _)
\* long division of a by the small number den, from digit i down, rem
\* carried in: <<quotient digits (lowest first), remainder>>
DivideFrom(a, den, i, rem) ==
    IF i = 0 THEN <<<<>>, rem>>
    ELSE LET cur == Base * rem + a[i]
             rest == DivideFrom(a, den, i - 1, cur % den)
         IN  <<Append(rest[1], cur \div den), rest[2]>>

\* the float a decimal literal num/den denotes (num/den = 0, or >= 1/128):
\* twice the quotient num * 2^64 / den, plus one if a remainder was left,
\* rounded
FLiteral(num, den) ==
    LET scaled == NShl(NFromInt(num), 64)
        q == DivideFrom(scaled, den, Len(scaled), 0)
        quotient == NNorm(q[1])
        digits == NAdd(NShl(quotient, 1), IF q[2] # 0 THEN <<1>> ELSE <<>>)
    IN  FRound(digits, 0 - 65)

\* a pressure given in hundredths as the float the caller passes
PressureFloat(pressure) == FLiteral(pressure, 100)

\* ---------------------------------------------------------- limits
\* the branch of set_memory_pressure a pressure takes (comparing the floats
\* pressure and 0.9 or 0.8 is comparing their hundredths)
\* a faulty variant: the high regime begins at 0.7
RegimeHighFrom70(pressure) ==
    IF pressure >= 90 THEN "extreme" ELSE IF pressure >= 70 THEN "high" ELSE "normal"

Regime(pressure) ==
    IF pressure >= 90 THEN "extreme" ELSE IF pressure >= 80 THEN "high" ELSE "normal"

\* a faulty variant: the factor of the high regime used under extreme pressure
ExtremeFactorOfHigh(pressure) ==
    FMax(FLiteral(15, 100), FSub(FFromInt(1), PressureFloat(pressure)))

\* a faulty variant: the factor grows with the pressure
ExtremeFactorRising(pressure) ==
    FMax(FLiteral(1, 10), PressureFloat(pressure))

\* pressure_factor under extreme pressure: max(0.1, 1.0 - pressure)
ExtremeFactor(pressure) ==
    FMax(FLiteral(1, 10), FSub(FFromInt(1), PressureFloat(pressure)))
\* pressure_factor under high pressure: max(0.15, 1.0 - pressure)
HighFactor(pressure) ==
    FMax(FLiteral(15, 100), FSub(FFromInt(1), PressureFloat(pressure)))
\* pressure_factor + recovery_boost under normal pressure:
\* 1.0 - (pressure * 0.15) and max(0, 1.2 - pressure)
NormalFactor(pressure) ==
    LET pressure_factor ==
            FSub(FFromInt(1), FMul(PressureFloat(pressure), FLiteral(15, 100)))
        recovery_boost ==
            FMax(FFromInt(0), FSub(FLiteral(12, 10), PressureFloat(pressure)))
    IN  FAdd(pressure_factor, recovery_boost)

\* max(floor, int(base * factor))
ScaledLimit(floor, base, factor) == Max(floor, FInt(FMul(FFromInt(base), factor)))

\* set_memory_pressure: the three limits for an accepted pressure
ComputeLimits(pressure) ==
    CASE Regime(pressure) = "extreme" ->
            [immediate |-> ScaledLimit(ExtremeImmediateFloor, BaseImmediateLimit,
                                       ExtremeFactor(pressure)),
             active |-> ScaledLimit(ExtremeActiveFloor, BaseActiveLimit,
                                    ExtremeFactor(pressure)),
             background |-> ScaledLimit(ExtremeBackgroundFloor, BaseBackgroundLimit,
                                        ExtremeFactor(pressure))]
      [] Regime(pressure) = "high" ->
            [immediate |-> ScaledLimit(HighImmediateFloor, BaseImmediateLimit,
                                       HighFactor(pressure)),
             active |-> ScaledLimit(HighActiveFloor, BaseActiveLimit,
                                    HighFactor(pressure)),
             background |-> ScaledLimit(HighBackgroundFloor, BaseBackgroundLimit,
                                        HighFactor(pressure))]
      [] OTHER ->
            [immediate |-> ScaledLimit(NormalImmediateFloor, BaseImmediateLimit,
                                       NormalFactor(pressure)),
             active |-> ScaledLimit(NormalActiveFloor, BaseActiveLimit,
                                    NormalFactor(pressure)),
             background |-> ScaledLimit(NormalBackgroundFloor, BaseBackgroundLimit,
                                        NormalFactor(pressure))]

\* the limits of every accepted pressure, computed once
AcceptedPressures == 0..100
LimitsOf == [pressure \in AcceptedPressures |-> ComputeLimits(pressure)]

\* ------------------------------------------------ demotion selector
\* a faulty variant of the comparison below, with >= for > (defined next to it)
\* age1 * 1/(priority1 + 1) > age2 * 1/(priority2 + 1), neither divisor zero
\* (for whole ages and the priorities 0 and 5 the float products compare as
\* the exact quotients do)
ScoreGreaterOrEqual(age1, priority1, age2, priority2) ==
    (age1 * (priority2 + 1) - age2 * (priority1 + 1)) * ((priority1 + 1) * (priority2 + 1)) >= 0

ScoreGreater(age1, priority1, age2, priority2) ==
    (age1 * (priority2 + 1) - age2 * (priority1 + 1)) * ((priority1 + 1) * (priority2 + 1)) > 0

RECURSIVE ScanCandidates(_, _, _, _, _, _, _)
\* the loop of _find_demotion_candidate from position i on; best is the
\* first candidate of maximal score so far (NoneId: no candidate yet)
ScanCandidates(context, i, best, age_threshold, now, pri, la) ==
    IF i > Len(context) THEN best
    ELSE
        LET obj_id == context[i]
            priority == DictGet(pri, obj_id, 0)
            age == now - DictGet(la, obj_id, 0)
        IN  IF age_threshold # NoneTime /\ age_threshold # 0 /\ age > age_threshold
                THEN obj_id
            ELSE IF priority + 1 = 0 THEN ZeroDivision
            ELSE IF best = NoneId
                    \/ ScoreGreater(age, priority,
                                    now - DictGet(la, best, 0), DictGet(pri, best, 0))
                THEN ScanCandidates(context, i + 1, obj_id, age_threshold, now, pri, la)
            ELSE ScanCandidates(context, i + 1, best, age_threshold, now, pri, la)

\* _find_demotion_candidate: an id, NoneId for an empty context, or ZeroDivision
FindDemotionCandidate(context, age_threshold, now, pri, la) ==
    ScanCandidates(context, 1, NoneId, age_threshold, now, pri, la)

\* ------------------------------------------------------- rebalancer
\* faulty variants: one object too many tolerated; the limit itself refused
OverLimitByTwo(size, limit) == size > limit + 1
AtLimit(size, limit) == size >= limit

\* len(context) > limit: the test of the rebalance loops and of activate
OverLimit(size, limit) == size > limit

\* a faulty variant: a demotion out of Immediate goes to Background at once
MoveImmediateToBackground(s, obj_id) ==
    [s EXCEPT !.imm = PopKey(s.imm, obj_id),
              !.st = [s.st EXCEPT ![obj_id] = "BACKGROUND"],
              !.bg = SetKey(s.bg, obj_id),
              !.tt = s.tt + 1]

\* one demotion Immediate -> Active, Active -> Background, Background -> out
MoveImmediateToActive(s, obj_id) ==
    [s EXCEPT !.imm = PopKey(s.imm, obj_id),
              !.st = [s.st EXCEPT ![obj_id] = "ACTIVE"],
              !.act = SetKey(s.act, obj_id),
              !.tt = s.tt + 1]

\* a faulty variant: the state attribute is left as it was
MoveActiveToBackgroundStateKept(s, obj_id) ==
    [s EXCEPT !.act = PopKey(s.act, obj_id),
              !.bg = SetKey(s.bg, obj_id),
              !.tt = s.tt + 1]

MoveActiveToBackground(s, obj_id) ==
    [s EXCEPT !.act = PopKey(s.act, obj_id),
              !.st = [s.st EXCEPT ![obj_id] = "BACKGROUND"],
              !.bg = SetKey(s.bg, obj_id),
              !.tt = s.tt + 1]

DropFromBackground(s, obj_id) ==
    [s EXCEPT !.bg = PopKey(s.bg, obj_id),
              !.st = [s.st EXCEPT ![obj_id] = "INACTIVE"],
              !.tt = s.tt + 1]

\* The part of the manager a rebalance works on: the three containers, the
\* objects' state attributes, the transition counter, and whether
\* ZeroDivisionError has left the selector (err).
RECURSIVE DemoteImmediate(_, _, _, _, _)
\* while len(immediate) > limit: demote one candidate to Active
DemoteImmediate(s, limit, now, pri, la) ==
    IF s.err \/ ~OverLimit(Len(s.imm), limit) THEN s
    ELSE
        LET obj_id == FindDemotionCandidate(s.imm, NoneTime, now, pri, la)
        IN  IF obj_id = ZeroDivision THEN [s EXCEPT !.err = TRUE]
            ELSE DemoteImmediate(MoveImmediateToActive(s, obj_id), limit, now, pri, la)

RECURSIVE DemoteActive(_, _, _, _, _)
\* while len(active) > limit: demote one candidate to Background
DemoteActive(s, limit, now, pri, la) ==
    IF s.err \/ ~OverLimit(Len(s.act), limit) THEN s
    ELSE
        LET obj_id == FindDemotionCandidate(s.act, NoneTime, now, pri, la)
        IN  IF obj_id = ZeroDivision THEN [s EXCEPT !.err = TRUE]
            ELSE DemoteActive(MoveActiveToBackground(s, obj_id), limit, now, pri, la)

\* the staleness test of the rebalance: current_time - last_access > old_threshold
IsOld(obj_id, now, la) == now - DictGet(la, obj_id, 0) > now - StaleWindow

RECURSIVE DemoteOld(_, _, _, _, _)
\* for obj_id in list(active.keys()), from position i of that list on
DemoteOld(s, keys, i, now, la) ==
    IF s.err \/ i > Len(keys) THEN s
    ELSE IF IsOld(keys[i], now, la)
        THEN DemoteOld(
                [s EXCEPT !.act = PopKey(s.act, keys[i]),
                          !.bg = SetKey(s.bg, keys[i]),
                          !.st = [s.st EXCEPT ![keys[i]] = "BACKGROUND"],
                          !.tt = s.tt + 1],
                keys, i + 1, now, la)
    ELSE DemoteOld(s, keys, i + 1, now, la)

RECURSIVE EvictBackground(_, _, _, _, _)
\* while len(background) > limit: drop one candidate from the cache
EvictBackground(s, limit, now, pri, la) ==
    IF s.err \/ ~OverLimit(Len(s.bg), limit) THEN s
    ELSE
        LET obj_id == FindDemotionCandidate(s.bg, NoneTime, now, pri, la)
        IN  IF obj_id = ZeroDivision THEN [s EXCEPT !.err = TRUE]
            ELSE EvictBackground(DropFromBackground(s, obj_id), limit, now, pri, la)

\* _rebalance_all_tiers
RebalanceAllTiers(s, ilimit, alimit, blimit, now, pri, la) ==
    LET s1 == DemoteImmediate(s, ilimit, now, pri, la)
        s2 == DemoteActive(s1, alimit, now, pri, la)
        s3 == DemoteOld(s2, s2.act, 1, now, la)
    IN  EvictBackground(s3, blimit, now, pri, la)

\* ------------------------------------------------------ bookkeeping
containers == <<immediate_context, active_cache, background_context>>
bookkeeping == <<priorities, last_accessed>>
limits == <<immediate_limit, active_limit, background_limit>>
pressure_vars == <<memory_pressure, memory_pressure_history, peak_memory_pressure>>
hit_counters == <<cache_hits, cache_misses>>
timing == <<operation_counts, operation_times>>
environment == <<testing, clock>>
race_vars == <<get_pc, activate_pc, race_id, race_priority, interleaved>>
manager_vars == <<containers, bookkeeping, obj_state, obj_last_accessed, limits,
                  pressure_vars, hit_counters, tier_transitions, timing,
                  last_state_check, environment, nsteps, last, race_vars>>
retry_vars == <<max_retries, delay, exceptions, attempt, last_exception,
                wrapper_pc, wrapper_result, outcomes, slept>>
collector_vars == <<hits, misses, reported>>

\* what a call was and how it ended: outcome is "ok" or the exception raised,
\* result the id of the object returned (NoneId: None), rebalanced whether
\* the call ran _rebalance_all_tiers, target the target_state handed to the
\* validator when the call was to the validator alone, affected the
\* affected_objects of a CorruptStateError
Call(op, obj, arg, outcome, result, rebalanced) ==
    [op |-> op, obj |-> obj, arg |-> arg, outcome |-> outcome,
     result |-> result, rebalanced |-> rebalanced, target |-> "", affected |-> {}]

\* the call left by the CorruptStateError of _check_state_consistency
Corrupt(op, obj) ==
    [Call(op, obj, 0, "CorruptStateError", NoneId, FALSE)
        EXCEPT !.affected = DuplicateObjects(immediate_context, active_cache,
                                             background_context)]

\* time_operation: one more sample and one more call under metric_name
Timed(d, metric_name) == DictSet(d, metric_name, DictGet(d, metric_name, 0) + 1)

\* the manager as a rebalance takes it over
Tiers(imm, act, bg, st, tt) ==
    [imm |-> imm, act |-> act, bg |-> bg, st |-> st, tt |-> tt, err |-> FALSE]

\* faulty variants: the object is not removed from Active; not from Background
ActivatePlacementKeepingActive(obj, st0) ==
    Tiers(SetKey(immediate_context, obj),
          active_cache,
          PopKey(background_context, obj),
          [st0 EXCEPT ![obj] = "IMMEDIATE"],
          tier_transitions + 1)
ActivatePlacementKeepingBackground(obj, st0) ==
    Tiers(SetKey(immediate_context, obj),
          PopKey(active_cache, obj),
          background_context,
          [st0 EXCEPT ![obj] = "IMMEDIATE"],
          tier_transitions + 1)

\* activate, once validated: the object leaves Active and Background and
\* enters Immediate
ActivatePlacement(obj, st0) ==
    Tiers(SetKey(immediate_context, obj),
          PopKey(active_cache, obj),
          PopKey(background_context, obj),
          [st0 EXCEPT ![obj] = "IMMEDIATE"],
          tier_transitions + 1)

\* a faulty variant: the test for an Inactive object is missing
NeverInactive(state) == FALSE

\* deactivate: obj.state == ObjectState.INACTIVE
AlreadyInactive(state) == state = "INACTIVE"

\* a faulty variant: the branch for a Background resident is missing
MarkInactiveBranchWithoutBackground(obj) ==
    IF Has(immediate_context, obj) THEN "immediate"
    ELSE IF Has(active_cache, obj) THEN "active"
    ELSE "untracked"

\* a faulty variant: every object outside Immediate and Active is refused
MarkInactiveBranchRefusingUntracked(obj) ==
    IF Has(immediate_context, obj) THEN "immediate"
    ELSE IF Has(active_cache, obj) THEN "active"
    ELSE "background"

\* mark_inactive: the branch of its if / elif chain an object takes
MarkInactiveBranch(obj) ==
    IF Has(immediate_context, obj) THEN "immediate"
    ELSE IF Has(active_cache, obj) THEN "active"
    ELSE IF Has(background_context, obj) THEN "background"
    ELSE "untracked"

\* a faulty variant: the early return for an Immediate resident is missing
NeverAlreadyImmediate(obj) == FALSE

\* activate: obj_id in self._immediate_context, "already in immediate context"
AlreadyImmediate(obj) == Has(immediate_context, obj)

\* ------------------------------------------------------ operations
\* activate(obj, priority), wrapped by time_operation('activate')
Activate(obj, priority) ==
    LET invalid == ValidateObject(obj, obj_state)
        st0 == DefaultedState(obj, obj_state)
    IN
    /\ nsteps' = nsteps + 1
    /\ UNCHANGED <<retry_vars, collector_vars, race_vars>>
    /\ UNCHANGED <<limits, pressure_vars, hit_counters, last_state_check, environment>>
    /\ IF invalid # "ok" THEN
            /\ last' = Call("activate", obj, priority, invalid, NoneId, FALSE)
            /\ UNCHANGED <<containers, bookkeeping, obj_state, obj_last_accessed,
                           tier_transitions, timing>>
       ELSE IF AlreadyImmediate(obj) THEN
            /\ last' = Call("activate", obj, priority, "ok", NoneId, FALSE)
            /\ obj_state' = st0
            /\ operation_counts' = Timed(operation_counts, "activate")
            /\ operation_times' = Timed(operation_times, "activate")
            /\ UNCHANGED <<containers, bookkeeping, obj_last_accessed, tier_transitions>>
       ELSE IF ValidateStateTransition(st0[obj], "IMMEDIATE") # "ok" THEN
            /\ last' = Call("activate", obj, priority,
                            ValidateStateTransition(st0[obj], "IMMEDIATE"), NoneId, FALSE)
            /\ obj_state' = st0
            /\ UNCHANGED <<containers, bookkeeping, obj_last_accessed,
                           tier_transitions, timing>>
       ELSE
            \E pri \in {DictSet(priorities, obj, priority)} :
            \E la \in {DictSet(last_accessed, obj, clock)} :
            \E placed \in {ActivatePlacement(obj, st0)} :
            \E over \in {OverLimit(Len(placed.imm), immediate_limit)} :
            \E r \in {IF over
                        THEN RebalanceAllTiers(placed, immediate_limit, active_limit,
                                               background_limit, clock, pri, la)
                        ELSE placed} :
                /\ priorities' = pri
                /\ last_accessed' = la
                /\ obj_last_accessed' = [obj_last_accessed EXCEPT ![obj] = clock]
                /\ immediate_context' = r.imm
                /\ active_cache' = r.act
                /\ background_context' = r.bg
                /\ obj_state' = r.st
                /\ tier_transitions' = r.tt
                /\ IF r.err
                      THEN /\ last' = Call("activate", obj, priority,
                                           "ZeroDivisionError", NoneId, over)
                           /\ UNCHANGED timing
                      ELSE /\ last' = Call("activate", obj, priority, "ok", NoneId, over)
                           /\ operation_counts' = Timed(operation_counts, "activate")
                           /\ operation_times' = Timed(operation_times, "activate")

\* a faulty variant: a removal from Background is not counted
WasInTierWithoutBackground(obj) ==
    Has(immediate_context, obj) \/ Has(active_cache, obj)

\* deactivate: "Track tier transition if object was in any tier"
WasInTier(obj) ==
    Has(immediate_context, obj) \/ Has(active_cache, obj)
        \/ Has(background_context, obj)

\* deactivate(obj), wrapped by time_operation('deactivate')
Deactivate(obj) ==
    LET invalid == ValidateObject(obj, obj_state)
        st0 == DefaultedState(obj, obj_state)
    IN
    /\ nsteps' = nsteps + 1
    /\ UNCHANGED <<retry_vars, collector_vars, race_vars>>
    /\ UNCHANGED <<limits, pressure_vars, hit_counters, environment, obj_last_accessed>>
    /\ IF invalid # "ok" THEN
            /\ last' = Call("deactivate", obj, 0, invalid, NoneId, FALSE)
            /\ UNCHANGED <<containers, bookkeeping, obj_state, tier_transitions,
                           timing, last_state_check>>
       ELSE IF AlreadyInactive(st0[obj]) THEN
            /\ last' = Call("deactivate", obj, 0, "StateTransitionError", NoneId, FALSE)
            /\ obj_state' = st0
            /\ UNCHANGED <<containers, bookkeeping, tier_transitions, timing,
                           last_state_check>>
       ELSE IF CheckStateConsistency(clock, immediate_context, active_cache,
                                     background_context) # "ok" THEN
            /\ last' = Corrupt("deactivate", obj)
            /\ last_state_check' = CheckedAt(clock)
            /\ obj_state' = st0
            /\ UNCHANGED <<containers, bookkeeping, tier_transitions, timing>>
       ELSE
            /\ last' = Call("deactivate", obj, 0, "ok", NoneId, FALSE)
            /\ last_state_check' = CheckedAt(clock)
            /\ tier_transitions' =
                    IF WasInTier(obj) THEN tier_transitions + 1 ELSE tier_transitions
            /\ immediate_context' = PopKey(immediate_context, obj)
            /\ active_cache' = PopKey(active_cache, obj)
            /\ background_context' = PopKey(background_context, obj)
            /\ obj_state' = [st0 EXCEPT ![obj] = "INACTIVE"]
            /\ priorities' = DictPop(priorities, obj)
            /\ last_accessed' = DictPop(last_accessed, obj)
            /\ operation_counts' = Timed(operation_counts, "deactivate")
            /\ operation_times' = Timed(operation_times, "deactivate")

\* mark_inactive(obj)
MarkInactive(obj) ==
    LET invalid == ValidateObject(obj, obj_state)
        st0 == DefaultedState(obj, obj_state)
    IN
    /\ nsteps' = nsteps + 1
    /\ UNCHANGED <<retry_vars, collector_vars, race_vars>>
    /\ UNCHANGED <<limits, pressure_vars, hit_counters, environment, timing,
                   priorities, obj_last_accessed>>
    /\ IF invalid # "ok" THEN
            /\ last' = Call("mark_inactive", obj, 0, invalid, NoneId, FALSE)
            /\ UNCHANGED <<containers, last_accessed, obj_state, tier_transitions,
                           last_state_check>>
       ELSE IF CheckStateConsistency(clock, immediate_context, active_cache,
                                     background_context) # "ok" THEN
            /\ last' = Corrupt("mark_inactive", obj)
            /\ last_state_check' = CheckedAt(clock)
            /\ obj_state' = st0
            /\ UNCHANGED <<containers, last_accessed, tier_transitions>>
       ELSE
            /\ last_state_check' = CheckedAt(clock)
            /\ IF MarkInactiveBranch(obj) = "immediate" THEN
                    IF ValidateStateTransition(st0[obj], "ACTIVE") # "ok" THEN
                        /\ last' = Call("mark_inactive", obj, 0,
                                        ValidateStateTransition(st0[obj], "ACTIVE"),
                                        NoneId, FALSE)
                        /\ obj_state' = st0
                        /\ UNCHANGED <<containers, last_accessed, tier_transitions>>
                    ELSE
                        /\ last' = Call("mark_inactive", obj, 0, "ok", NoneId, FALSE)
                        /\ immediate_context' = PopKey(immediate_context, obj)
                        /\ active_cache' = SetKey(active_cache, obj)
                        /\ obj_state' = [st0 EXCEPT ![obj] = "ACTIVE"]
                        /\ tier_transitions' = tier_transitions + 1
                        /\ last_accessed' = DictSet(last_accessed, obj, clock)
                        /\ UNCHANGED background_context
               ELSE IF MarkInactiveBranch(obj) = "active" THEN
                    IF ValidateStateTransition(st0[obj], "BACKGROUND") # "ok" THEN
                        /\ last' = Call("mark_inactive", obj, 0,
                                        ValidateStateTransition(st0[obj], "BACKGROUND"),
                                        NoneId, FALSE)
                        /\ obj_state' = st0
                        /\ UNCHANGED <<containers, last_accessed, tier_transitions>>
                    ELSE
                        /\ last' = Call("mark_inactive", obj, 0, "ok", NoneId, FALSE)
                        /\ active_cache' = PopKey(active_cache, obj)
                        /\ background_context' = SetKey(background_context, obj)
                        /\ obj_state' = [st0 EXCEPT ![obj] = "BACKGROUND"]
                        /\ tier_transitions' = tier_transitions + 1
                        /\ last_accessed' = DictSet(last_accessed, obj, clock)
                        /\ UNCHANGED immediate_context
               ELSE IF MarkInactiveBranch(obj) = "background" THEN
                    /\ last' = Call("mark_inactive", obj, 0, "StateTransitionError",
                                    NoneId, FALSE)
                    /\ obj_state' = st0
                    /\ UNCHANGED <<containers, last_accessed, tier_transitions>>
               ELSE
                    /\ last' = Call("mark_inactive", obj, 0, "ok", NoneId, FALSE)
                    /\ obj_state' = st0
                    /\ UNCHANGED <<containers, last_accessed, tier_transitions>>

\* a faulty variant: the object is removed from Immediate and Active before
\* the transition is validated
RefuseAddToBackgroundAfterRemoval(obj, st0) ==
    /\ last' = Call("add_to_background", obj, 0,
                    ValidateStateTransition(st0[obj], "BACKGROUND"), NoneId, FALSE)
    /\ obj_state' = st0
    /\ immediate_context' = PopKey(immediate_context, obj)
    /\ active_cache' = PopKey(active_cache, obj)
    /\ UNCHANGED <<background_context, last_accessed, obj_last_accessed, tier_transitions>>

\* add_to_background: _validate_state_transition raises
RefuseAddToBackground(obj, st0) ==
    /\ last' = Call("add_to_background", obj, 0,
                    ValidateStateTransition(st0[obj], "BACKGROUND"), NoneId, FALSE)
    /\ obj_state' = st0
    /\ UNCHANGED <<containers, last_accessed, obj_last_accessed, tier_transitions>>

\* a faulty variant: an insertion that leaves Background over its limit
\* drops the first member
InsertedIntoBackgroundWithinLimit(obj) ==
    IF Len(SetKey(background_context, obj)) > background_limit
        THEN Tail(SetKey(background_context, obj))
        ELSE SetKey(background_context, obj)

\* add_to_background: self._background_context[obj_id] = obj
InsertedIntoBackground(obj) == SetKey(background_context, obj)

\* add_to_background(obj)
AddToBackground(obj) ==
    LET invalid == ValidateObject(obj, obj_state)
        st0 == DefaultedState(obj, obj_state)
    IN
    /\ nsteps' = nsteps + 1
    /\ UNCHANGED <<retry_vars, collector_vars, race_vars>>
    /\ UNCHANGED <<limits, pressure_vars, hit_counters, environment, timing,
                   priorities, last_state_check>>
    /\ IF invalid # "ok" THEN
            /\ last' = Call("add_to_background", obj, 0, invalid, NoneId, FALSE)
            /\ UNCHANGED <<containers, last_accessed, obj_state, obj_last_accessed,
                           tier_transitions>>
       ELSE IF ValidateStateTransition(st0[obj], "BACKGROUND") # "ok" THEN
            RefuseAddToBackground(obj, st0)
       ELSE
            /\ last' = Call("add_to_background", obj, 0, "ok", NoneId, FALSE)
            /\ immediate_context' = PopKey(immediate_context, obj)
            /\ active_cache' = PopKey(active_cache, obj)
            /\ last_accessed' = DictSet(last_accessed, obj, clock)
            /\ obj_last_accessed' = [obj_last_accessed EXCEPT ![obj] = clock]
            /\ obj_state' = [st0 EXCEPT ![obj] = "BACKGROUND"]
            /\ background_context' = InsertedIntoBackground(obj)
            /\ tier_transitions' = tier_transitions + 1

\* a faulty variant: promotion also into a tier that is exactly full
HasRoomWhenFull(size, limit) == size <= limit

\* get_object: len(context) < limit, "space allows"
HasRoom(size, limit) == size < limit

\* a faulty variant: a miss is not counted
GetMissUncounted(obj_id) ==
    /\ last' = Call("get_object", obj_id, 0, "ok", NoneId, FALSE)
    /\ UNCHANGED <<containers, last_accessed, obj_last_accessed, obj_state,
                   tier_transitions, cache_hits, cache_misses>>

\* get_object: the id is in no container
GetMiss(obj_id) ==
    /\ last' = Call("get_object", obj_id, 0, "ok", NoneId, FALSE)
    /\ cache_misses' = cache_misses + 1
    /\ UNCHANGED <<containers, last_accessed, obj_last_accessed, obj_state,
                   tier_transitions, cache_hits>>

\* a faulty variant: every hit refreshes the recorded access time
LastAccessedAfterAnyHit(obj_id, tier) == DictSet(last_accessed, obj_id, clock)

\* get_object: self._last_accessed after a hit in tier; only the Immediate
\* branch assigns self._last_accessed[obj_id] = current_time
LastAccessedAfterHit(obj_id, tier) ==
    IF tier = "IMMEDIATE" THEN DictSet(last_accessed, obj_id, clock) ELSE last_accessed

\* get_object(obj_id)
GetObject(obj_id) ==
    /\ nsteps' = nsteps + 1
    /\ UNCHANGED <<retry_vars, collector_vars, race_vars>>
    /\ UNCHANGED <<limits, pressure_vars, environment, timing, priorities,
                   last_state_check>>
    /\ IF Has(immediate_context, obj_id) THEN
            /\ last' = Call("get_object", obj_id, 0, "ok", obj_id, FALSE)
            /\ cache_hits' = cache_hits + 1
            /\ obj_last_accessed' = [obj_last_accessed EXCEPT ![obj_id] = clock]
            /\ last_accessed' = LastAccessedAfterHit(obj_id, "IMMEDIATE")
            /\ UNCHANGED <<containers, obj_state, tier_transitions, cache_misses>>
       ELSE IF Has(active_cache, obj_id) THEN
            /\ last' = Call("get_object", obj_id, 0, "ok", obj_id, FALSE)
            /\ cache_hits' = cache_hits + 1
            /\ last_accessed' = LastAccessedAfterHit(obj_id, "ACTIVE")
            /\ UNCHANGED <<obj_last_accessed, cache_misses, background_context>>
            /\ IF HasRoom(Len(immediate_context), immediate_limit) THEN
                    /\ active_cache' = PopKey(active_cache, obj_id)
                    /\ obj_state' = [obj_state EXCEPT ![obj_id] = "IMMEDIATE"]
                    /\ immediate_context' = SetKey(immediate_context, obj_id)
                    /\ tier_transitions' = tier_transitions + 1
               ELSE UNCHANGED <<active_cache, obj_state, immediate_context,
                                tier_transitions>>
       ELSE IF Has(background_context, obj_id) THEN
            /\ last' = Call("get_object", obj_id, 0, "ok", obj_id, FALSE)
            /\ cache_hits' = cache_hits + 1
            /\ last_accessed' = LastAccessedAfterHit(obj_id, "BACKGROUND")
            /\ UNCHANGED <<obj_last_accessed, cache_misses, immediate_context>>
            /\ IF HasRoom(Len(active_cache), active_limit) THEN
                    /\ background_context' = PopKey(background_context, obj_id)
                    /\ obj_state' = [obj_state EXCEPT ![obj_id] = "ACTIVE"]
                    /\ active_cache' = SetKey(active_cache, obj_id)
                    /\ tier_transitions' = tier_transitions + 1
               ELSE UNCHANGED <<background_context, obj_state, active_cache,
                                tier_transitions>>
       ELSE GetMiss(obj_id)

\* a faulty variant: the pressure is recorded before the range is checked
RejectPressureAfterRecording(pressure) ==
    /\ last' = Call("set_memory_pressure", NoIdObj, pressure, "ValueError", NoneId, FALSE)
    /\ memory_pressure' = pressure
    /\ memory_pressure_history' = Append(memory_pressure_history, pressure)
    /\ peak_memory_pressure' = Max(peak_memory_pressure, pressure)
    /\ UNCHANGED <<containers, limits, obj_state, tier_transitions>>

\* set_memory_pressure: the range check fails and ValueError is raised
RejectPressure(pressure) ==
    /\ last' = Call("set_memory_pressure", NoIdObj, pressure, "ValueError", NoneId, FALSE)
    /\ UNCHANGED <<containers, limits, pressure_vars, obj_state, tier_transitions>>

\* set_memory_pressure(pressure), pressure in hundredths
SetMemoryPressure(pressure) ==
    /\ nsteps' = nsteps + 1
    /\ UNCHANGED <<retry_vars, collector_vars, race_vars>>
    /\ UNCHANGED <<bookkeeping, hit_counters, environment, timing, obj_last_accessed,
                   last_state_check>>
    /\ IF ~(0 <= pressure /\ pressure <= 100) THEN RejectPressure(pressure)
       ELSE
            \E new \in {LimitsOf[pressure]} :
            \E r \in {RebalanceAllTiers(
                        Tiers(immediate_context, active_cache, background_context,
                              obj_state, tier_transitions),
                        new.immediate, new.active, new.background, clock,
                        priorities, last_accessed)} :
                /\ memory_pressure' = pressure
                /\ memory_pressure_history' = Append(memory_pressure_history, pressure)
                /\ peak_memory_pressure' = Max(peak_memory_pressure, pressure)
                /\ immediate_limit' = new.immediate
                /\ active_limit' = new.active
                /\ background_limit' = new.background
                /\ immediate_context' = r.imm
                /\ active_cache' = r.act
                /\ background_context' = r.bg
                /\ obj_state' = r.st
                /\ tier_transitions' = r.tt
                /\ last' = Call("set_memory_pressure", NoIdObj, pressure,
                                IF r.err THEN "ZeroDivisionError" ELSE "ok", NoneId, TRUE)

\* _validate_state_transition(obj, target_state) on its own: it reads
\* obj.state and touches nothing
ValidateTransition(obj, target_state) ==
    /\ obj_state[obj] # MISSING
    /\ nsteps' = nsteps + 1
    /\ UNCHANGED <<retry_vars, collector_vars, race_vars>>
    /\ last' = [Call("validate_state_transition", obj, 0,
                     ValidateStateTransition(obj_state[obj], target_state), NoneId, FALSE)
                    EXCEPT !.target = target_state]
    /\ UNCHANGED <<containers, bookkeeping, obj_state, obj_last_accessed, limits,
                   pressure_vars, hit_counters, tier_transitions, timing,
                   last_state_check, environment>>

\* _find_demotion_candidate(context, age_threshold) on the container of a
\* tier: it reads the containers and the two maps and touches nothing
FindCandidate(tier, age_threshold) ==
    \E context \in {CASE tier = "IMMEDIATE" -> immediate_context
                      [] tier = "ACTIVE" -> active_cache
                      [] tier = "BACKGROUND" -> background_context} :
    \E found \in {FindDemotionCandidate(context, age_threshold, clock, priorities,
                                        last_accessed)} :
        /\ nsteps' = nsteps + 1
        /\ UNCHANGED <<retry_vars, collector_vars, race_vars>>
        /\ last' = [Call("find_demotion_candidate", NoIdObj, age_threshold,
                         IF found = ZeroDivision THEN "ZeroDivisionError" ELSE "ok",
                         IF found = ZeroDivision THEN NoneId ELSE found, FALSE)
                        EXCEPT !.target = tier]
        /\ UNCHANGED <<containers, bookkeeping, obj_state, obj_last_accessed, limits,
                       pressure_vars, hit_counters, tier_transitions, timing,
                       last_state_check, environment>>

\* time passes between two calls
Tick(d) ==
    /\ clock' = clock + d
    /\ nsteps' = nsteps + 1
    /\ UNCHANGED <<retry_vars, collector_vars, race_vars>>
    /\ last' = Call("tick", NoIdObj, d, "ok", NoneId, FALSE)
    /\ UNCHANGED <<containers, bookkeeping, obj_state, obj_last_accessed, limits,
                   pressure_vars, hit_counters, tier_transitions, timing,
                   last_state_check, testing>>

\* ------------------------- get_object and activate without a lock
\* The manager takes no lock.  Two callers, one in get_object(obj_id), one
\* in activate(obj, priority) for the same id, run statement by statement in
\* any order; each of the two keeps its position in get_pc and activate_pc.
\* A call that has returned or raised is recorded in last as a whole call is.

\* neither of the two callers is inside its call
Quiet == get_pc \in {"idle", "done"} /\ activate_pc \in {"idle", "done"}

\* the caller at position pc has executed a statement of its call and has
\* not left it; first is the position before the first statement
Inside(pc, first) == pc \notin {"idle", "done", first}

\* both calls are made; neither has executed a statement yet
StartRace(obj_id, priority) ==
    /\ Quiet
    /\ get_pc' = "check_immediate"
    /\ activate_pc' = "validate_object"
    /\ race_id' = obj_id
    /\ race_priority' = priority
    /\ UNCHANGED <<interleaved, nsteps, last>>
    /\ UNCHANGED <<containers, bookkeeping, obj_state, obj_last_accessed, limits,
                   pressure_vars, hit_counters, tier_transitions, timing,
                   last_state_check, environment>>
    /\ UNCHANGED <<retry_vars, collector_vars>>

\* get_object goes on to its statement at position pc
GetGoesTo(pc) ==
    /\ get_pc' = pc
    /\ UNCHANGED <<nsteps, last>>

\* get_object returns result, or raises outcome
GetReturns(outcome, result) ==
    /\ get_pc' = "done"
    /\ nsteps' = nsteps + 1
    /\ last' = Call("get_object", race_id, 0, outcome, result, FALSE)

\* one statement of get_object(race_id)
GetStep ==
    /\ get_pc \notin {"idle", "done"}
    /\ interleaved' = (interleaved \/ Inside(activate_pc, "validate_object"))
    /\ UNCHANGED <<activate_pc, race_id, race_priority>>
    /\ UNCHANGED <<priorities, limits, pressure_vars, timing, last_state_check,
                   environment>>
    /\ UNCHANGED <<retry_vars, collector_vars>>
    /\ CASE get_pc = "check_immediate" ->
                \* if obj_id in self._immediate_context
                /\ GetGoesTo(IF Has(immediate_context, race_id)
                                THEN "hit_immediate" ELSE "check_active")
                /\ UNCHANGED <<containers, last_accessed, obj_state, obj_last_accessed,
                               hit_counters, tier_transitions>>
         [] get_pc = "hit_immediate" ->
                \* the hit in Immediate: count, stamp, return
                /\ cache_hits' = cache_hits + 1
                /\ IF Has(immediate_context, race_id)
                      THEN /\ obj_last_accessed' =
                                    [obj_last_accessed EXCEPT ![race_id] = clock]
                           /\ last_accessed' = DictSet(last_accessed, race_id, clock)
                           /\ GetReturns("ok", race_id)
                      ELSE /\ UNCHANGED <<obj_last_accessed, last_accessed>>
                           /\ GetReturns("KeyError", NoneId)
                /\ UNCHANGED <<containers, obj_state, cache_misses, tier_transitions>>
         [] get_pc = "check_active" ->
                \* if obj_id in self._active_cache
                /\ GetGoesTo(IF Has(active_cache, race_id)
                                THEN "read_active" ELSE "check_background")
                /\ UNCHANGED <<containers, last_accessed, obj_state, obj_last_accessed,
                               hit_counters, tier_transitions>>
         [] get_pc = "read_active" ->
                \* self._cache_hits += 1; obj = self._active_cache[obj_id]
                /\ cache_hits' = cache_hits + 1
                /\ IF Has(active_cache, race_id)
                      THEN GetGoesTo("room_immediate")
                      ELSE GetReturns("KeyError", NoneId)
                /\ UNCHANGED <<containers, last_accessed, obj_state, obj_last_accessed,
                               cache_misses, tier_transitions>>
         [] get_pc = "room_immediate" ->
                \* if len(self._immediate_context) < self._immediate_limit
                /\ IF HasRoom(Len(immediate_context), immediate_limit)
                      THEN GetGoesTo("pop_active")
                      ELSE GetReturns("ok", race_id)
                /\ UNCHANGED <<containers, last_accessed, obj_state, obj_last_accessed,
                               hit_counters, tier_transitions>>
         [] get_pc = "pop_active" ->
                \* self._active_cache.pop(obj_id)
                /\ IF Has(active_cache, race_id)
                      THEN /\ active_cache' = PopKey(active_cache, race_id)
                           /\ GetGoesTo("state_immediate")
                      ELSE /\ UNCHANGED active_cache
                           /\ GetReturns("KeyError", NoneId)
                /\ UNCHANGED <<immediate_context, background_context, last_accessed,
                               obj_state, obj_last_accessed, hit_counters,
                               tier_transitions>>
         [] get_pc = "state_immediate" ->
                \* obj.state = ObjectState.IMMEDIATE
                /\ obj_state' = [obj_state EXCEPT ![race_id] = "IMMEDIATE"]
                /\ GetGoesTo("set_immediate")
                /\ UNCHANGED <<containers, last_accessed, obj_last_accessed,
                               hit_counters, tier_transitions>>
         [] get_pc = "set_immediate" ->
                \* self._immediate_context[obj_id] = obj
                /\ immediate_context' = SetKey(immediate_context, race_id)
                /\ GetGoesTo("count_immediate")
                /\ UNCHANGED <<active_cache, background_context, last_accessed,
                               obj_state, obj_last_accessed, hit_counters,
                               tier_transitions>>
         [] get_pc = "check_background" ->
                \* if obj_id in self._background_context
                /\ GetGoesTo(IF Has(background_context, race_id)
                                THEN "read_background" ELSE "miss")
                /\ UNCHANGED <<containers, last_accessed, obj_state, obj_last_accessed,
                               hit_counters, tier_transitions>>
         [] get_pc = "read_background" ->
                \* self._cache_hits += 1; obj = self._background_context[obj_id]
                /\ cache_hits' = cache_hits + 1
                /\ IF Has(background_context, race_id)
                      THEN GetGoesTo("room_active")
                      ELSE GetReturns("KeyError", NoneId)
                /\ UNCHANGED <<containers, last_accessed, obj_state, obj_last_accessed,
                               cache_misses, tier_transitions>>
         [] get_pc = "room_active" ->
                \* if len(self._active_cache) < self._active_limit
                /\ IF HasRoom(Len(active_cache), active_limit)
                      THEN GetGoesTo("pop_background")
                      ELSE GetReturns("ok", race_id)
                /\ UNCHANGED <<containers, last_accessed, obj_state, obj_last_accessed,
                               hit_counters, tier_transitions>>
         [] get_pc = "pop_background" ->
                \* self._background_context.pop(obj_id)
                /\ IF Has(background_context, race_id)
                      THEN /\ background_context' = PopKey(background_context, race_id)
                           /\ GetGoesTo("state_active")
                      ELSE /\ UNCHANGED background_context
                           /\ GetReturns("KeyError", NoneId)
                /\ UNCHANGED <<immediate_context, active_cache, last_accessed,
                               obj_state, obj_last_accessed, hit_counters,
                               tier_transitions>>
         [] get_pc = "state_active" ->
                \* obj.state = ObjectState.ACTIVE
                /\ obj_state' = [obj_state EXCEPT ![race_id] = "ACTIVE"]
                /\ GetGoesTo("set_active")
                /\ UNCHANGED <<containers, last_accessed, obj_last_accessed,
                               hit_counters, tier_transitions>>
         [] get_pc = "set_active" ->
                \* self._active_cache[obj_id] = obj
                /\ active_cache' = SetKey(active_cache, race_id)
                /\ GetGoesTo("count_active")
                /\ UNCHANGED <<immediate_context, background_context, last_accessed,
                               obj_state, obj_last_accessed, hit_counters,
                               tier_transitions>>
         [] get_pc \in {"count_immediate", "count_active"} ->
                \* self._tier_transitions += 1; return obj
                /\ tier_transitions' = tier_transitions + 1
                /\ GetReturns("ok", race_id)
                /\ UNCHANGED <<containers, last_accessed, obj_state, obj_last_accessed,
                               hit_counters>>
         [] get_pc = "miss" ->
                \* self._cache_misses += 1; return None
                /\ cache_misses' = cache_misses + 1
                /\ GetReturns("ok", NoneId)
                /\ UNCHANGED <<containers, last_accessed, obj_state, obj_last_accessed,
                               cache_hits, tier_transitions>>

\* a faulty variant: activate leaves the object in Background
KeptInBackground(context, obj_id) == context

\* activate: self._background_context.pop(obj_id, None)
RemovedFromBackground(context, obj_id) == PopKey(context, obj_id)

\* activate goes on to its statement at position pc
ActivateGoesTo(pc) ==
    /\ activate_pc' = pc
    /\ UNCHANGED <<nsteps, last, timing>>

\* activate raises outcome: time_operation records nothing
ActivateRaises(outcome) ==
    /\ activate_pc' = "done"
    /\ nsteps' = nsteps + 1
    /\ last' = Call("activate", race_id, race_priority, outcome, NoneId, FALSE)
    /\ UNCHANGED timing

\* activate returns: time_operation records the call
ActivateReturns(rebalanced) ==
    /\ activate_pc' = "done"
    /\ nsteps' = nsteps + 1
    /\ last' = Call("activate", race_id, race_priority, "ok", NoneId, rebalanced)
    /\ operation_counts' = Timed(operation_counts, "activate")
    /\ operation_times' = Timed(operation_times, "activate")

\* one statement of activate(race_id, race_priority)
ActivateStep ==
    /\ activate_pc \notin {"idle", "done"}
    /\ interleaved' = (interleaved \/ Inside(get_pc, "check_immediate"))
    /\ UNCHANGED <<get_pc, race_id, race_priority>>
    /\ UNCHANGED <<limits, pressure_vars, hit_counters, last_state_check, environment>>
    /\ UNCHANGED <<retry_vars, collector_vars>>
    /\ CASE activate_pc = "validate_object" ->
                \* self._validate_object(obj)
                /\ IF ValidateObject(race_id, obj_state) # "ok"
                      THEN /\ ActivateRaises(ValidateObject(race_id, obj_state))
                           /\ UNCHANGED obj_state
                      ELSE /\ obj_state' = DefaultedState(race_id, obj_state)
                           /\ ActivateGoesTo("check_immediate")
                /\ UNCHANGED <<containers, bookkeeping, obj_last_accessed,
                               tier_transitions>>
         [] activate_pc = "check_immediate" ->
                \* if obj_id in self._immediate_context: return
                /\ IF Has(immediate_context, race_id)
                      THEN ActivateReturns(FALSE)
                      ELSE ActivateGoesTo("validate_transition")
                /\ UNCHANGED <<containers, bookkeeping, obj_state, obj_last_accessed,
                               tier_transitions>>
         [] activate_pc = "validate_transition" ->
                \* self._validate_state_transition(obj, ObjectState.IMMEDIATE)
                /\ IF ValidateStateTransition(obj_state[race_id], "IMMEDIATE") # "ok"
                      THEN ActivateRaises(
                                ValidateStateTransition(obj_state[race_id], "IMMEDIATE"))
                      ELSE ActivateGoesTo("record")
                /\ UNCHANGED <<containers, bookkeeping, obj_state, obj_last_accessed,
                               tier_transitions>>
         [] activate_pc = "record" ->
                \* the priority and the access time are recorded
                /\ priorities' = DictSet(priorities, race_id, race_priority)
                /\ last_accessed' = DictSet(last_accessed, race_id, clock)
                /\ obj_last_accessed' = [obj_last_accessed EXCEPT ![race_id] = clock]
                /\ ActivateGoesTo("pop_active")
                /\ UNCHANGED <<containers, obj_state, tier_transitions>>
         [] activate_pc = "pop_active" ->
                \* self._active_cache.pop(obj_id, None)
                /\ active_cache' = PopKey(active_cache, race_id)
                /\ ActivateGoesTo("pop_background")
                /\ UNCHANGED <<immediate_context, background_context, bookkeeping,
                               obj_state, obj_last_accessed, tier_transitions>>
         [] activate_pc = "pop_background" ->
                \* self._background_context.pop(obj_id, None)
                /\ background_context' = RemovedFromBackground(background_context, race_id)
                /\ ActivateGoesTo("state")
                /\ UNCHANGED <<immediate_context, active_cache, bookkeeping,
                               obj_state, obj_last_accessed, tier_transitions>>
         [] activate_pc = "state" ->
                \* obj.state = ObjectState.IMMEDIATE
                /\ obj_state' = [obj_state EXCEPT ![race_id] = "IMMEDIATE"]
                /\ ActivateGoesTo("set_immediate")
                /\ UNCHANGED <<containers, bookkeeping, obj_last_accessed,
                               tier_transitions>>
         [] activate_pc = "set_immediate" ->
                \* self._immediate_context[obj_id] = obj
                /\ immediate_context' = SetKey(immediate_context, race_id)
                /\ ActivateGoesTo("count")
                /\ UNCHANGED <<active_cache, background_context, bookkeeping,
                               obj_state, obj_last_accessed, tier_transitions>>
         [] activate_pc = "count" ->
                \* self._tier_transitions += 1
                /\ tier_transitions' = tier_transitions + 1
                /\ ActivateGoesTo("rebalance")
                /\ UNCHANGED <<containers, bookkeeping, obj_state, obj_last_accessed>>
         [] activate_pc = "rebalance" ->
                \* if len(self._immediate_context) > self._immediate_limit:
                \*     self._rebalance_all_tiers()
                \E over \in {OverLimit(Len(immediate_context), immediate_limit)} :
                \E r \in {IF over
                            THEN RebalanceAllTiers(
                                    Tiers(immediate_context, active_cache,
                                          background_context, obj_state,
                                          tier_transitions),
                                    immediate_limit, active_limit, background_limit,
                                    clock, priorities, last_accessed)
                            ELSE Tiers(immediate_context, active_cache,
                                       background_context, obj_state,
                                       tier_transitions)} :
                    /\ immediate_context' = r.imm
                    /\ active_cache' = r.act
                    /\ background_context' = r.bg
                    /\ obj_state' = r.st
                    /\ tier_transitions' = r.tt
                    /\ IF r.err THEN ActivateRaises("ZeroDivisionError")
                                ELSE ActivateReturns(over)
                    /\ UNCHANGED <<bookkeeping, obj_last_accessed>>

\* before any of the two calls is made
InitRace ==
    /\ get_pc = "idle"
    /\ activate_pc = "idle"
    /\ race_id = NoneId
    /\ race_priority = 0
    /\ interleaved = FALSE

\* --------------------------------------- retry_on_exception (retry.py)
\* the defaults of max_retries and delay
DefaultMaxRetries == 3
DefaultDelay == 1
\* what func may return, what it may raise, and "None"
ReturnValues == {"done", "partial"}
Raisable == {"ValueError", "KeyError"}
None == "None"

\* a faulty variant: the loop body runs once whatever the range
InRangeOrFirst(i, stop) == i < stop \/ i = 0

\* for attempt in range(stop): whether index i is produced
InRange(i, stop) == i < stop

\* a faulty variant: the last allowed attempt is followed by a sleep too
RetriesLeftOffByOne(i, retries) == i <= retries

\* wrapper: attempt < max_retries, a further attempt will follow
RetriesLeft(i, retries) == i < retries

\* the loop is left without a return or raise: "return None"
FallThrough ==
    /\ wrapper_pc' = "returned"
    /\ wrapper_result' = None

\* retry_on_exception(mr, dl, excs)(func)(...): the wrapper is entered
CallWrapper(mr, dl, excs) ==
    /\ wrapper_pc = "idle"
    /\ max_retries' = mr
    /\ delay' = dl
    /\ exceptions' = excs
    /\ last_exception' = None
    /\ attempt' = 0
    /\ IF InRange(0, mr + 1)
          THEN /\ wrapper_pc' = "try"
               /\ wrapper_result' = None
          ELSE FallThrough
    /\ UNCHANGED <<outcomes, slept, manager_vars, collector_vars>>

\* wrapper: one pass through try / except, func doing `outcome`
InvokeFunc(outcome) ==
    /\ wrapper_pc = "try"
    /\ outcomes' = Append(outcomes, outcome)
    /\ IF outcome \in ReturnValues THEN
            /\ wrapper_pc' = "returned"
            /\ wrapper_result' = outcome
            /\ UNCHANGED last_exception
       ELSE IF outcome \in exceptions THEN
            /\ last_exception' = outcome
            /\ IF RetriesLeft(attempt, max_retries)
                  THEN /\ wrapper_pc' = "sleep"
                       /\ UNCHANGED wrapper_result
                  ELSE /\ wrapper_pc' = "raised"
                       /\ wrapper_result' = outcome
       ELSE
            /\ wrapper_pc' = "raised"
            /\ wrapper_result' = outcome
            /\ UNCHANGED last_exception
    /\ UNCHANGED <<max_retries, delay, exceptions, attempt, slept, manager_vars,
                   collector_vars>>

\* wrapper: time.sleep(delay), then the next index of the loop
Sleep ==
    /\ wrapper_pc = "sleep"
    /\ slept' = slept + delay
    /\ attempt' = attempt + 1
    /\ IF InRange(attempt + 1, max_retries + 1)
          THEN /\ wrapper_pc' = "try"
               /\ UNCHANGED wrapper_result
          ELSE FallThrough
    /\ UNCHANGED <<max_retries, delay, exceptions, last_exception, outcomes,
                   manager_vars, collector_vars>>

\* the decorator with its defaults, before the wrapper is called
InitRetry ==
    /\ max_retries = DefaultMaxRetries
    /\ delay = DefaultDelay
    /\ exceptions = Raisable
    /\ attempt = 0
    /\ last_exception = None
    /\ wrapper_pc = "idle"
    /\ wrapper_result = None
    /\ outcomes = <<>>
    /\ slept = 0

\* ------------------------------------- MetricsCollector (collector.py)
CacheTypes == {"L1", "L2"}
RECURSIVE Gcd(_, _)
Gcd(a, b) == IF b = 0 THEN a ELSE Gcd(b, a % b)
\* the float hits / total, kept as the fraction in lowest terms: two quotients
\* of small integers are the same float exactly when these are equal
Quotient(a, b) == <<a \div Gcd(a, b), b \div Gcd(a, b)>>
\* the integer 0 reported for a type without events (0 == 0.0)
Zero == <<0, 1>>
\* Counter[key]: a read of an absent key gives 0 and adds no key
Count(counter, key) == DictGet(counter, key, 0)

\* _calculate_hit_rate: `for cache_type in ...['hits']`
CacheTypesReported(h, m) == DOMAIN h

\* _calculate_hit_rate
CalculateHitRate(h, m) ==
    [cache_type \in CacheTypesReported(h, m) |->
        IF Count(h, cache_type) + Count(m, cache_type) > 0
            THEN Quotient(Count(h, cache_type),
                          Count(h, cache_type) + Count(m, cache_type))
            ELSE Zero]

\* what a call of the collector returned
Returned(called, rates) == [called |-> called, cache_hit_rate |-> rates]

\* record_cache_event(cache_type, hit)
RecordCacheEvent(cache_type, hit) ==
    /\ IF hit
          THEN /\ hits' = DictSet(hits, cache_type, Count(hits, cache_type) + 1)
               /\ UNCHANGED misses
          ELSE /\ misses' = DictSet(misses, cache_type, Count(misses, cache_type) + 1)
               /\ UNCHANGED hits
    /\ reported' = Returned("record_cache_event", EmptyDict)
    /\ UNCHANGED <<manager_vars, retry_vars>>

\* analyze_performance: its 'cache_hit_rate' entry
AnalyzePerformance ==
    /\ reported' = Returned("analyze_performance", CalculateHitRate(hits, misses))
    /\ UNCHANGED <<hits, misses, manager_vars, retry_vars>>

\* MetricsCollector.__init__: two empty Counters
InitCollector ==
    /\ hits = EmptyDict
    /\ misses = EmptyDict
    /\ reported = Returned("__init__", EmptyDict)

\* ------------------------------------------------- the empty manager
\* LifecycleManager.__init__
InitManager ==
    /\ immediate_context = <<>>
    /\ active_cache = <<>>
    /\ background_context = <<>>
    /\ priorities = EmptyDict
    /\ cache_hits = 0
    /\ cache_misses = 0
    /\ last_state_check = 0
    /\ immediate_limit = BaseImmediateLimit
    /\ active_limit = BaseActiveLimit
    /\ background_limit = BaseBackgroundLimit
    /\ memory_pressure = 0
    /\ memory_pressure_history = <<>>
    /\ peak_memory_pressure = 0
    /\ last_accessed = EmptyDict
    /\ operation_times = EmptyDict
    /\ operation_counts = EmptyDict
    /\ tier_transitions = 0

\* the objects before the cache has seen them, and the clock
InitEnvironment ==
    /\ obj_state = [o \in Objects |-> IF o = BadStateObj THEN INVALID ELSE MISSING]
    /\ obj_last_accessed = [o \in Objects |-> NoneTime]
    /\ testing \in BOOLEAN
    /\ clock = ClockStart
    /\ nsteps = 0
    /\ last = Call("init", NoIdObj, 0, "ok", NoneId, FALSE)

Init == InitManager /\ InitEnvironment /\ InitRetry /\ InitCollector /\ InitRace

\* ------------------------------------------- Spec: from the empty cache
SmallObjects == FreshObjects \cup {NoIdObj, BadStateObj}
SmallIds == FreshObjects \cup {BadStateObj}

\* the caller may go on: the exploration is not at its bound
MaySmall == nsteps < MaxSteps

Next ==
    \/ \E obj \in SmallObjects, priority \in Priorities : MaySmall /\ Activate(obj, priority)
    \/ \E obj \in SmallObjects : MaySmall /\ Deactivate(obj)
    \/ \E obj \in SmallObjects : MaySmall /\ MarkInactive(obj)
    \/ \E obj \in SmallObjects : MaySmall /\ AddToBackground(obj)
    \/ \E obj_id \in SmallIds : MaySmall /\ GetObject(obj_id)
    \/ \E pressure \in Pressures : MaySmall /\ SetMemoryPressure(pressure)
    \/ \E obj \in SmallIds, target \in ObjectState :
            MaySmall /\ ValidateTransition(obj, target)
    \/ \E d \in TickSteps : MaySmall /\ Tick(d)

Spec == Init /\ [][Next]_vars

\* --------------------------------- SpecLoaded: after a scripted load
\* The caller first fills the tiers, one call after the other: Background by
\* add_to_background, Active by activate then mark_inactive, Immediate by
\* activate, the clock advancing in the middle of each part.  A script entry
\* is <<operation, object, argument>>.
BallastPriority(obj) == IF obj % 2 = 0 THEN 5 ELSE 0
\* the ids of the set lo..hi in ascending order, each made an entry by Entry
Entries(lo, hi, Entry(_)) == [i \in 1..(hi - lo + 1) |-> Entry(lo + i - 1)]
ScriptTick == <<"tick", NoIdObj, 1>>
First(S) == CHOOSE x \in S : \A y \in S : x <= y
Last(S) == CHOOSE x \in S : \A y \in S : x >= y
Middle(S) == (First(S) + Last(S)) \div 2

LoadScript ==
    LET Background(o) == <<"add_to_background", o, 0>>
        Activation(o) == <<"activate", o, BallastPriority(o)>>
        Demotion(o) == <<"mark_inactive", o, 0>>
    IN  Entries(First(BackgroundBallast), Middle(BackgroundBallast), Background)
        \o <<ScriptTick>>
        \o Entries(Middle(BackgroundBallast) + 1, Last(BackgroundBallast), Background)
        \o Entries(First(ActiveBallast), Last(ActiveBallast), Activation)
        \o Entries(First(ActiveBallast), Middle(ActiveBallast), Demotion)
        \o <<ScriptTick>>
        \o Entries(Middle(ActiveBallast) + 1, Last(ActiveBallast), Demotion)
        \o Entries(First(ImmediateBallast), Middle(ImmediateBallast), Activation)
        \o <<ScriptTick>>
        \o Entries(Middle(ImmediateBallast) + 1, Last(ImmediateBallast), Activation)

\* after the script the caller works on a fresh object and on the first
\* object loaded into each tier
LoadedObjects ==
    {First(FreshObjects), First(ImmediateBallast), First(ActiveBallast),
     First(BackgroundBallast)}
ScriptObjects == ImmediateBallast \cup ActiveBallast \cup BackgroundBallast

\* the caller may make this call next
MayLoaded(op, obj, arg) ==
    IF nsteps < Len(LoadScript)
        THEN LoadScript[nsteps + 1] = <<op, obj, arg>>
        ELSE /\ nsteps < Len(LoadScript) + MaxLoadedSteps
             /\ obj \in LoadedObjects \cup {NoIdObj}

NextLoaded ==
    \/ \E obj \in FreshObjects \cup ScriptObjects, priority \in Priorities :
            MayLoaded("activate", obj, priority) /\ Activate(obj, priority)
    \/ \E obj \in LoadedObjects : MayLoaded("deactivate", obj, 0) /\ Deactivate(obj)
    \/ \E obj \in FreshObjects \cup ScriptObjects :
            MayLoaded("mark_inactive", obj, 0) /\ MarkInactive(obj)
    \/ \E obj \in FreshObjects \cup ScriptObjects :
            MayLoaded("add_to_background", obj, 0) /\ AddToBackground(obj)
    \/ \E obj_id \in LoadedObjects : MayLoaded("get_object", obj_id, 0) /\ GetObject(obj_id)
    \/ \E pressure \in Pressures :
            MayLoaded("set_memory_pressure", NoIdObj, pressure) /\ SetMemoryPressure(pressure)
    \/ \E d \in TickSteps : MayLoaded("tick", NoIdObj, d) /\ Tick(d)

SpecLoaded == Init /\ [][NextLoaded]_vars

\* ------------- SpecEvict: one object taken down the tiers, then pressure
\* After the same scripted load the caller re-activates the first object of
\* Active with a priority of its choice, demotes it step by step and changes
\* the pressure.
EvictPressures == {0, 95}
MayEvict(op, obj, arg) ==
    IF nsteps < Len(LoadScript)
        THEN LoadScript[nsteps + 1] = <<op, obj, arg>>
        ELSE /\ nsteps < Len(LoadScript) + MaxEvictSteps
             /\ obj \in {First(ActiveBallast), NoIdObj}
NextEvict ==
    \/ \E obj \in ScriptObjects, priority \in Priorities :
            MayEvict("activate", obj, priority) /\ Activate(obj, priority)
    \/ \E obj \in ScriptObjects : MayEvict("mark_inactive", obj, 0) /\ MarkInactive(obj)
    \/ \E obj \in ScriptObjects :
            MayEvict("add_to_background", obj, 0) /\ AddToBackground(obj)
    \/ \E pressure \in EvictPressures :
            MayEvict("set_memory_pressure", NoIdObj, pressure) /\ SetMemoryPressure(pressure)
    \/ MayEvict("tick", NoIdObj, 1) /\ Tick(1)
SpecEvict == Init /\ [][NextEvict]_vars

\* ------------------------- SpecFill: filling Immediate past its limit
\* From the empty cache the caller may set a pressure once, and then activates
\* one new object after the other, in id order, until one object more than
\* the Immediate limit has been handed in.  The first object carries any
\* priority, the others alternate; the clock may advance before and between
\* the first activations.
FillActivated == Cardinality(DOMAIN priorities)
FillPriorities(obj) ==
    IF obj = First(FreshObjects) THEN Priorities ELSE {BallastPriority(obj)}
MayFill == FillActivated <= immediate_limit

NextFill ==
    \/ \E pressure \in Pressures : nsteps = 0 /\ SetMemoryPressure(pressure)
    \/ \E obj \in Objects \ {BadStateObj}, priority \in Priorities :
            /\ MayFill /\ obj = FillActivated + 1 /\ priority \in FillPriorities(obj)
            /\ Activate(obj, priority)
    \/ \E d \in TickSteps :
            MayFill /\ FillActivated <= MaxFillTicks /\ last.op # "tick" /\ Tick(d)

SpecFill == Init /\ [][NextFill]_vars

\* ------------------- SpecPressure: pressure calls on the loaded cache
\* After the load script the caller only sets pressures, any whole number of
\* hundredths from just below 0.0 to just above 1.0, each call following
\* one of the pressures of Pressures (or none).
FinePressures == -1..101
Scripted(op, obj, arg) ==
    nsteps < Len(LoadScript) /\ LoadScript[nsteps + 1] = <<op, obj, arg>>
MayPressure ==
    /\ nsteps >= Len(LoadScript)
    /\ nsteps < Len(LoadScript) + MaxPressureCalls
    /\ memory_pressure \in Pressures

NextPressure ==
    \/ \E obj \in ScriptObjects, priority \in Priorities :
            Scripted("activate", obj, priority) /\ Activate(obj, priority)
    \/ \E obj \in ScriptObjects : Scripted("mark_inactive", obj, 0) /\ MarkInactive(obj)
    \/ \E obj \in ScriptObjects :
            Scripted("add_to_background", obj, 0) /\ AddToBackground(obj)
    \/ \E d \in TickSteps : Scripted("tick", NoIdObj, d) /\ Tick(d)
    \/ \E pressure \in FinePressures : MayPressure /\ SetMemoryPressure(pressure)

SpecPressure == Init /\ [][NextPressure]_vars

\* ------------------- SpecSelect: the demotion selector on small tiers
\* From the empty cache the caller places fresh objects with any priority,
\* demotes them, lets time pass, and asks the selector for the candidate of
\* a tier, without an age threshold or with one of a second.
AgeThresholds == {NoneTime, 1}
MaySelect == nsteps < MaxSelectSteps

NextSelect ==
    \/ \E obj \in FreshObjects, priority \in Priorities :
            MaySelect /\ Activate(obj, priority)
    \/ \E obj \in FreshObjects : MaySelect /\ MarkInactive(obj)
    \/ \E d \in TickSteps : MaySelect /\ Tick(d)
    \/ \E tier \in {"IMMEDIATE", "ACTIVE", "BACKGROUND"}, age_threshold \in AgeThresholds :
            MaySelect /\ FindCandidate(tier, age_threshold)

SpecSelect == Init /\ [][NextSelect]_vars

\* ------------- SpecNegative: Immediate full of negative priorities
\* activate takes any int as priority.  Under pressure 0.95 the caller fills
\* Immediate to its limit with objects of priority -2 and lets a second
\* pass; then it activates, demotes and lets time pass as it likes, with
\* priorities down to -2.
MaxNegativeSteps == 2
AnyPriorities == Priorities \cup {0 - 2}
NegativeScript ==
    LET Activation(o) == <<"activate", o, 0 - 2>>
    IN  <<<<"set_memory_pressure", NoIdObj, 95>>>>
        \o Entries(First(ImmediateBallast),
                   First(ImmediateBallast) + ExtremeImmediateFloor - 1, Activation)
        \o <<ScriptTick>>
NegativeObjects == ImmediateBallast \cup {First(FreshObjects)}
MayNegative(op, obj, arg) ==
    IF nsteps < Len(NegativeScript)
        THEN NegativeScript[nsteps + 1] = <<op, obj, arg>>
        ELSE nsteps < Len(NegativeScript) + MaxNegativeSteps

NextNegative ==
    \/ \E obj \in NegativeObjects, priority \in AnyPriorities :
            MayNegative("activate", obj, priority) /\ Activate(obj, priority)
    \/ \E obj \in NegativeObjects :
            MayNegative("mark_inactive", obj, 0) /\ MarkInactive(obj)
    \/ MayNegative("set_memory_pressure", NoIdObj, 95) /\ SetMemoryPressure(95)
    \/ MayNegative("tick", NoIdObj, 1) /\ Tick(1)

SpecNegative == Init /\ [][NextNegative]_vars

\* ---------------------- SpecRace: get_object beside activate, no lock
\* From the empty cache a caller places and demotes fresh objects, call by
\* call.  Then a get_object and an activate for one id are both under way
\* and their statements run in any order, one call after the other
\* included.  Once both have ended the caller goes on call by call.
MaxRaceSteps == 4
MayRace == Quiet /\ nsteps < MaxRaceSteps

NextRace ==
    \/ \E obj \in FreshObjects : MayRace /\ Activate(obj, 0)
    \/ \E obj \in FreshObjects : MayRace /\ MarkInactive(obj)
    \/ \E obj \in FreshObjects : MayRace /\ AddToBackground(obj)
    \/ \E obj \in FreshObjects : MayRace /\ Deactivate(obj)
    \/ \E obj_id \in FreshObjects : MayRace /\ StartRace(obj_id, 0)
    \/ GetStep
    \/ ActivateStep

SpecRace == Init /\ [][NextRace]_vars

\* ------------------------------- SpecRetry: one call of a retrying wrapper
RetryCounts == (0 - 2)..MaxRetries
Delays == {DefaultDelay, 2 * DefaultDelay}
\* (ValueError,) and the default (Exception,)
ExceptionTuples == {{"ValueError"}, Raisable}
NextRetry ==
    \/ \E mr \in RetryCounts, dl \in Delays, excs \in ExceptionTuples :
            CallWrapper(mr, dl, excs)
    \/ \E outcome \in ReturnValues \cup Raisable : InvokeFunc(outcome)
    \/ Sleep
SpecRetry == Init /\ [][NextRetry]_vars

\* ------------------------- SpecMetrics: cache events, then an analysis
\* the events recorded so far
Events(h, m) ==
    LET RECURSIVE Sum(_, _)
        Sum(counter, types) ==
            IF types = {} THEN 0
            ELSE LET t == CHOOSE x \in types : TRUE
                 IN Count(counter, t) + Sum(counter, types \ {t})
    IN Sum(h, CacheTypes) + Sum(m, CacheTypes)
NextMetrics ==
    \/ \E cache_type \in CacheTypes, hit \in BOOLEAN :
            Events(hits, misses) < MaxEvents /\ RecordCacheEvent(cache_type, hit)
    \/ AnalyzePerformance
SpecMetrics == Init /\ [][NextMetrics]_vars

\* ------------------------------------------------------------ claims
Tier == {"IMMEDIATE", "ACTIVE", "BACKGROUND"}
Container(tier) ==
    CASE tier = "IMMEDIATE" -> immediate_context
      [] tier = "ACTIVE" -> active_cache
      [] tier = "BACKGROUND" -> background_context
\* the tiers whose container has obj as a key
Holders(obj) == {tier \in Tier : Has(Container(tier), obj)}
Tracked(obj) == Holders(obj) # {}
\* the tiers holding obj in the state the step leads to
HoldersAfter(obj) ==
    {tier \in Tier : Has(Container(tier)', obj)}
\* the state attribute obj has once _validate_object has seen it
StateOf(obj) == IF obj_state[obj] = MISSING THEN "INACTIVE" ELSE obj_state[obj]
\* the number of calls and clock advances of the load script
Loaded == Len(LoadScript)

\* C1 (I1, exclusive ownership): in every reachable state each object id is a
\* key of at most one of the three containers, and no call has ended with a
\* corrupt-state error.
C1_ExclusiveOwnership ==
    /\ \A t1 \in Tier : \A t2 \in Tier \ {t1} :
            Keys(Container(t1)) \cap Keys(Container(t2)) = {}
    /\ last.outcome # "CorruptStateError"

\* C1 witness: the consistency check has just run and passed (deactivate
\* returned) on a store that a rebalance under extreme pressure has reshuffled, all three containers holding objects.
C1_Witness ==
    /\ last.op = "deactivate" /\ last.outcome = "ok"
    /\ memory_pressure = 95 /\ tier_transitions > Loaded
    /\ immediate_context # <<>> /\ active_cache # <<>> /\ background_context # <<>>

\* C2 (I3, state agrees with placement): every object held by a container has
\* that tier as its state, and an object held by none that carries a valid
\* state has state INACTIVE.
C2_StateMatchesPlacement ==
    /\ \A tier \in Tier : \A obj \in Keys(Container(tier)) : obj_state[obj] = tier
    /\ \A obj \in Objects :
            obj_state[obj] \in ObjectState \ {"INACTIVE"} => Tracked(obj)

\* C2 witness: a rebalance has demoted into Background and evicted from it:
\* an evicted object (still in the last-accessed map, in no container) and a
\* Background member that came down from Active (it has a priority).
C2_Witness ==
    /\ last.op = "set_memory_pressure" /\ last.outcome = "ok"
    /\ \E obj \in DOMAIN last_accessed : ~Tracked(obj) /\ obj_state[obj] = "INACTIVE"
    /\ \E obj \in DOMAIN priorities : Has(background_context, obj)
    /\ \E obj \in ImmediateBallast : Has(active_cache, obj)

\* C3 (I2, capacity after a rebalance): when a call that ran a rebalance has
\* returned (an accepted set_memory_pressure, or an activate that found
\* Immediate over its limit), no tier holds more objects than its limit.
C3_CapacityAfterRebalance ==
    (last.rebalanced /\ last.outcome = "ok") =>
        /\ Len(immediate_context) <= immediate_limit
        /\ Len(active_cache) <= active_limit
        /\ Len(background_context) <= background_limit

\* C3 witness: an activate pushed Immediate over its limit and the rebalance
\* it ran demoted through all tiers, leaving each exactly at its limit.
C3_Witness ==
    /\ last.op = "activate" /\ last.rebalanced /\ last.outcome = "ok"
    /\ Len(immediate_context) = immediate_limit
    /\ Len(active_cache) = active_limit
    /\ Len(background_context) = background_limit
    /\ \E obj \in DOMAIN last_accessed : ~Tracked(obj)

\* the table of legal moves as the specification states it
ClaimedTransitions ==
    [s \in ObjectState |->
        IF s = "INACTIVE" THEN {"IMMEDIATE", "BACKGROUND"}
        ELSE IF s = "BACKGROUND" THEN {"ACTIVE", "IMMEDIATE", "INACTIVE"}
        ELSE IF s = "ACTIVE" THEN {"IMMEDIATE", "BACKGROUND", "INACTIVE"}
        ELSE {"ACTIVE", "INACTIVE"}]

\* C4 (validator table): a call of the validator on an object in state cur
\* with target tgt succeeds exactly when tgt is in the stated table for cur,
\* fails with a transition error otherwise, and changes nothing.
C4_ValidatorTable ==
    [][(last'.op = "validate_state_transition" /\ obj_state[last'.obj] \in ObjectState) =>
        /\ last'.outcome =
              IF last'.target \in ClaimedTransitions[obj_state[last'.obj]]
                  THEN "ok" ELSE "StateTransitionError"
        /\ UNCHANGED <<containers, bookkeeping, obj_state, obj_last_accessed, limits,
                       pressure_vars, hit_counters, tier_transitions, timing,
                       last_state_check>>]_vars

\* C4 witness: the validator has refused Immediate -> Background.
C4_Witness ==
    /\ last.op = "validate_state_transition" /\ last.target = "BACKGROUND"
    /\ obj_state[last.obj] = "IMMEDIATE" /\ last.outcome = "StateTransitionError"

\* C5 (activate places in Immediate): when activate(o) returns without having
\* run a rebalance, o is a key of Immediate only and o.state is IMMEDIATE;
\* and a get(o.id) right after it is a hit that returns o and finds it in
\* Immediate (the containers do not change).
C5_ActivateThenGet ==
    [][/\ (last'.op = "activate" /\ last'.outcome = "ok" /\ ~last'.rebalanced) =>
            /\ Has(immediate_context', last'.obj)
            /\ ~Has(active_cache', last'.obj)
            /\ ~Has(background_context', last'.obj)
            /\ obj_state'[last'.obj] = "IMMEDIATE"
       /\ (/\ last.op = "activate" /\ last.outcome = "ok" /\ ~last.rebalanced
           /\ last'.op = "get_object" /\ last'.obj = last.obj) =>
            /\ last'.result = last.obj
            /\ Has(immediate_context, last.obj)
            /\ cache_hits' = cache_hits + 1
            /\ UNCHANGED <<containers, obj_state>>]_vars

\* C5 witness: the first object loaded into Active was activated with priority
\* -1 (the load gave it 5), sits in Immediate, and a get has just returned it.
C5_Witness ==
    /\ last.op = "get_object" /\ last.result = First(ActiveBallast)
    /\ nsteps = Loaded + 2 /\ cache_hits = 1
    /\ DictGet(priorities, First(ActiveBallast), 0) = -1
    /\ Has(immediate_context, First(ActiveBallast))
    /\ ~Has(active_cache, First(ActiveBallast))

\* C6 (mark_inactive, one level per call): on an Immediate resident the call
\* moves it to Active, on an Active resident to Background, and on a
\* Background resident it raises a transition error and changes no container
\* and no state.
C6_MarkInactiveOneLevel ==
    [][(last'.op = "mark_inactive" /\ last'.obj \in Objects) =>
        /\ Has(immediate_context, last'.obj) =>
              /\ last'.outcome = "ok"
              /\ HoldersAfter(last'.obj) = {"ACTIVE"}
              /\ obj_state'[last'.obj] = "ACTIVE"
        /\ Has(active_cache, last'.obj) =>
              /\ last'.outcome = "ok"
              /\ HoldersAfter(last'.obj) = {"BACKGROUND"}
              /\ obj_state'[last'.obj] = "BACKGROUND"
        /\ Has(background_context, last'.obj) =>
              /\ last'.outcome = "StateTransitionError"
              /\ obj_state'[last'.obj] = "BACKGROUND"
              /\ UNCHANGED <<containers, obj_state>>]_vars

\* C6 witness: the third call of the sequence on one object.  The load
\* script activated the first Active ballast object and called mark_inactive
\* on it once; the caller then called mark_inactive on it twice, and the
\* second of these calls was refused with the object in Background.
C6_Witness ==
    /\ last.op = "mark_inactive" /\ last.obj = First(ActiveBallast)
    /\ last.outcome = "StateTransitionError"
    /\ nsteps = Loaded + 2 /\ tier_transitions = Loaded - 3 + 1
    /\ memory_pressure_history = <<>>
    /\ Has(background_context, First(ActiveBallast))
    /\ obj_last_accessed[First(ActiveBallast)] < last_accessed[First(ActiveBallast)]

\* C7 (deactivate of an Inactive object): deactivate(o) on an object whose
\* state is Inactive raises a transition error and leaves the containers, the
\* priority map and the last-accessed map unchanged.
C7_DeactivateInactive ==
    [][(/\ last'.op = "deactivate" /\ last'.obj \in Objects
        /\ StateOf(last'.obj) = "INACTIVE") =>
            /\ last'.outcome = "StateTransitionError"
            /\ UNCHANGED <<containers, bookkeeping>>]_vars

\* C7 witness: the deactivate of an object that a rebalance evicted from
\* Background (it is in no container, its last-accessed entry is still
\* there) has just been refused.
C7_Witness ==
    /\ last.op = "deactivate" /\ last.outcome = "StateTransitionError"
    /\ last.obj \in BackgroundBallast
    /\ ~Tracked(last.obj) /\ last.obj \in DOMAIN last_accessed

\* the limits as one triple, and whether the last call was a
\* set_memory_pressure that passed the range check
CurrentLimits == <<immediate_limit, active_limit, background_limit>>
Accepted(call) == call.op = "set_memory_pressure" /\ call.outcome # "ValueError"

\* C8 (filling Immediate past its limit L): once L + 1 distinct objects have
\* been activated on a cache that was empty, each call having returned,
\* Immediate holds exactly L objects, Active exactly one, Background none,
\* and the transition counter is L + 2.
C8_FillPastLimit ==
    DictGet(operation_counts, "activate", 0) = immediate_limit + 1 =>
        /\ Len(immediate_context) = immediate_limit
        /\ Len(active_cache) = 1
        /\ Len(background_context) = 0
        /\ tier_transitions = immediate_limit + 2

\* C8 witness: with the default limit, the activation that overfilled
\* Immediate has returned after a rebalance that demoted the first object,
\* the oldest one, though its priority is 5.
C8_Witness ==
    /\ immediate_limit = BaseImmediateLimit /\ memory_pressure_history = <<>>
    /\ last.op = "activate" /\ last.rebalanced /\ last.outcome = "ok"
    /\ last.obj = BaseImmediateLimit + 1
    /\ DictGet(operation_counts, "activate", 0) = BaseImmediateLimit + 1
    /\ active_cache = <<First(FreshObjects)>>
    /\ priorities[First(FreshObjects)] = 5

\* C9 as stated: after an accepted set_memory_pressure(0.95) the limits are
\* the extreme-pressure floors 4, 20 and 40.
C9_LimitsAreExtremeFloors ==
    (Accepted(last) /\ last.arg = 95) =>
        CurrentLimits = <<ExtremeImmediateFloor, ExtremeActiveFloor, ExtremeBackgroundFloor>>

\* C9 (limits under pressure 0.95): after an accepted set_memory_pressure(0.95)
\* the limits are 4, 20 and 50: Immediate and Active at their extreme-pressure
\* floors, Background at one tenth of its base limit, above its floor of 40.
C9_LimitsAtExtremePressure ==
    (Accepted(last) /\ last.arg = 95) =>
        CurrentLimits = <<ExtremeImmediateFloor, ExtremeActiveFloor,
                          BaseBackgroundLimit \div 10>>

\* C9 witness: set_memory_pressure(0.95) has returned on the loaded cache,
\* after a call with pressure 0.0 had raised the limits; Background holds 50
\* objects, more than the floor of 40.
C9_Witness ==
    /\ Accepted(last) /\ last.arg = 95
    /\ memory_pressure_history = <<0, 95>>
    /\ Len(background_context) = background_limit
    /\ background_limit > ExtremeBackgroundFloor

\* C10 (limits recover): every accepted set_memory_pressure(p) with p < 0.8
\* leaves the limits at 20 / 60 / 120 or more, whatever the pressures before
\* it; and set_memory_pressure(0.0) right after set_memory_pressure(0.95)
\* leaves each limit strictly larger than it was under 0.95.
C10_LimitsRecover ==
    [][Accepted(last') =>
        /\ last'.arg < 80 =>
              /\ immediate_limit' >= NormalImmediateFloor
              /\ active_limit' >= NormalActiveFloor
              /\ background_limit' >= NormalBackgroundFloor
        /\ (Accepted(last) /\ last.arg = 95 /\ last'.arg = 0) =>
              /\ immediate_limit' > immediate_limit
              /\ active_limit' > active_limit
              /\ background_limit' > background_limit]_vars

\* C10 witness: pressure 0.95 and then 0.0 on the loaded cache; the limits
\* are above the base limits again, the tiers still as the rebalance under
\* 0.95 left them.
C10_Witness ==
    /\ Accepted(last) /\ memory_pressure_history = <<95, 0>>
    /\ immediate_limit > BaseImmediateLimit
    /\ active_limit > BaseActiveLimit
    /\ background_limit > BaseBackgroundLimit
    /\ Len(immediate_context) = ExtremeImmediateFloor

\* C11 (pressure out of range): set_memory_pressure(p) with p below 0.0 or
\* above 1.0 raises the range error, runs no rebalance, and leaves the limits,
\* the pressure, its history and peak, the containers, the objects' states
\* and the transition counter as they were.
C11_PressureOutOfRange ==
    [][(last'.op = "set_memory_pressure" /\ (last'.arg < 0 \/ last'.arg > 100)) =>
        /\ last'.outcome = "ValueError"
        /\ ~last'.rebalanced
        /\ UNCHANGED <<limits, pressure_vars, containers, obj_state, tier_transitions>>]_vars

\* C11 witness: set_memory_pressure(1.5) has been refused on the loaded cache
\* right after set_memory_pressure(0.95) had shrunk the limits and evicted
\* objects; the pressure is still 0.95 and the limits are still the shrunk ones.
C11_Witness ==
    /\ last.op = "set_memory_pressure" /\ last.arg = 150 /\ last.outcome = "ValueError"
    /\ memory_pressure_history = <<95>> /\ peak_memory_pressure = 95
    /\ immediate_limit = ExtremeImmediateFloor
    /\ Len(immediate_context) = ExtremeImmediateFloor

\* the age of a tracked object: now minus its recorded last-accessed time
AgeOf(obj) == clock - DictGet(last_accessed, obj, 0)

\* C12 as stated: when the selector, called without an age threshold, looks at
\* a tier holding exactly two objects of the same age (age 0 included), one of
\* priority 0 and one of priority 5, in either order, it does not return the
\* priority-5 object.
C12_PriorityFiveNeverSelected ==
    (/\ last.op = "find_demotion_candidate" /\ last.arg = NoneTime
     /\ Len(Container(last.target)) = 2
     /\ AgeOf(Container(last.target)[1]) = AgeOf(Container(last.target)[2])
     /\ {priorities[obj] : obj \in Keys(Container(last.target))} = {0, 5}) =>
        priorities[last.result] # 5

\* C13 (hit and miss counters): every get(id) adds one to exactly one of the
\* two counters: to the miss counter exactly when the id is in no container,
\* and then nothing is returned and the containers, the states and the
\* transition counter stay as they were; to the hit counter otherwise, and
\* then the object is returned.
C13_GetCountsHitOrMiss ==
    [][last'.op = "get_object" =>
        IF Tracked(last'.obj)
            THEN /\ cache_hits' = cache_hits + 1 /\ cache_misses' = cache_misses
                 /\ last'.result = last'.obj
            ELSE /\ cache_misses' = cache_misses + 1 /\ cache_hits' = cache_hits
                 /\ last'.result = NoneId
                 /\ UNCHANGED <<containers, obj_state, tier_transitions>>]_vars

\* C13 witness: on the loaded cache a get of an id in no container was a
\* miss, and the get after it, of a Background resident, was a hit.
C13_Witness ==
    /\ last.op = "get_object" /\ last.result = First(BackgroundBallast)
    /\ cache_misses = 1 /\ cache_hits = 1
    /\ nsteps = Loaded + 2

\* the ids of a container without obj, in order
Others(context, obj) == PopKey(context, obj)

\* C14 (read promotion is capacity-gated): a get that hits Active moves the
\* object to Immediate exactly when Immediate holds fewer objects than its
\* limit, a get that hits Background moves it to Active (never to Immediate)
\* exactly when Active holds fewer than its limit; a get that hits Immediate
\* moves nothing; no other object changes container, and a tier within its
\* limit before the get is within it afterwards.
C14_ReadPromotionGated ==
    [][last'.op = "get_object" =>
        /\ Has(immediate_context, last'.obj) => UNCHANGED containers
        /\ Has(active_cache, last'.obj) =>
              HoldersAfter(last'.obj) =
                  IF Len(immediate_context) < immediate_limit
                      THEN {"IMMEDIATE"} ELSE {"ACTIVE"}
        /\ Has(background_context, last'.obj) =>
              HoldersAfter(last'.obj) =
                  IF Len(active_cache) < active_limit THEN {"ACTIVE"} ELSE {"BACKGROUND"}
        /\ Others(immediate_context', last'.obj) = Others(immediate_context, last'.obj)
        /\ Others(active_cache', last'.obj) = Others(active_cache, last'.obj)
        /\ Others(background_context', last'.obj) = Others(background_context, last'.obj)
        /\ UNCHANGED limits
        /\ Len(immediate_context) <= immediate_limit =>
              Len(immediate_context') <= immediate_limit
        /\ Len(active_cache) <= active_limit => Len(active_cache') <= active_limit
        /\ Len(background_context) <= background_limit =>
              Len(background_context') <= background_limit]_vars

\* C14 witness: under pressure 0.95 Immediate is exactly full; a get of an
\* Active resident was a hit and left the object in Active.
C14_Witness ==
    /\ last.op = "get_object" /\ last.result = First(ActiveBallast)
    /\ cache_hits = 1
    /\ memory_pressure = 95
    /\ Len(immediate_context) = immediate_limit
    /\ Has(active_cache, First(ActiveBallast))
    /\ obj_state[First(ActiveBallast)] = "ACTIVE"

\* the calls that place, demote or remove an object, and the two errors a
\* refused object or move raises
PlacementCalls == {"activate", "mark_inactive", "add_to_background", "deactivate"}
RefusalErrors == {"InvalidObjectError", "StateTransitionError"}

\* C15 (failed calls are atomic): an activate, mark_inactive,
\* add_to_background or deactivate that raises an invalid-object error or a
\* transition error leaves the containers, the state of every tracked object,
\* the priority and last-accessed maps, the limits and the transition counter
\* as they were.
C15_FailedCallsAtomic ==
    [][(last'.op \in PlacementCalls /\ last'.outcome \in RefusalErrors) =>
        /\ UNCHANGED <<containers, bookkeeping, limits, tier_transitions>>
        /\ \A tier \in Tier : \A obj \in Keys(Container(tier)) :
                obj_state'[obj] = obj_state[obj]]_vars

\* C15 witness: add_to_background of an Immediate resident has been refused
\* with a transition error while another object sits in Background; the
\* object is still in Immediate.
C15_Witness ==
    /\ last.op = "add_to_background" /\ last.outcome = "StateTransitionError"
    /\ Has(immediate_context, last.obj) /\ obj_state[last.obj] = "IMMEDIATE"
    /\ background_context # <<>>
    /\ tier_transitions = 2

\* C16 (deactivate of a resident): deactivate(o) of an object resident in a
\* tier succeeds, removes its id from that container, sets o.state to
\* Inactive, deletes its priority and last-accessed entries, adds exactly one
\* to the transition counter and leaves every other object where it was.
C16_DeactivateResident ==
    [][(last'.op = "deactivate" /\ Tracked(last'.obj)) =>
        /\ last'.outcome = "ok"
        /\ HoldersAfter(last'.obj) = {}
        /\ obj_state'[last'.obj] = "INACTIVE"
        /\ last'.obj \notin DOMAIN priorities'
        /\ last'.obj \notin DOMAIN last_accessed'
        /\ tier_transitions' = tier_transitions + 1
        /\ \A tier \in Tier : Container(tier)' = Others(Container(tier), last'.obj)]_vars

\* C16 witness: a Background resident of the loaded cache that had a priority
\* and a last-accessed entry has been deactivated, the other residents staying.
C16_Witness ==
    /\ last.op = "deactivate" /\ last.outcome = "ok"
    /\ last.obj = First(BackgroundBallast)
    /\ nsteps = Loaded + 1
    /\ ~Tracked(last.obj) /\ obj_state[last.obj] = "INACTIVE"
    /\ last.obj \notin DOMAIN priorities /\ last.obj \notin DOMAIN last_accessed
    /\ background_context # <<>> /\ immediate_context # <<>>

\* C17 (activate of an Immediate resident is a no-op): activate(o, priority)
\* on an object already in Immediate returns without error and leaves the
\* containers and their order, o.state, the transition counter and the
\* recorded priority and last-accessed time of o unchanged, whatever the
\* priority argument; no rebalance runs.
C17_ActivateImmediateNoOp ==
    [][(last'.op = "activate" /\ Has(immediate_context, last'.obj)) =>
        /\ last'.outcome = "ok" /\ ~last'.rebalanced
        /\ UNCHANGED <<containers, bookkeeping, obj_last_accessed, tier_transitions>>
        /\ obj_state'[last'.obj] = obj_state[last'.obj]]_vars

\* C17 witness: an Immediate resident of the loaded cache has been activated
\* again with a priority other than its recorded one, which is still recorded.
C17_Witness ==
    /\ last.op = "activate" /\ last.outcome = "ok"
    /\ last.obj = First(ImmediateBallast)
    /\ nsteps = Loaded + 1
    /\ Has(immediate_context, last.obj)
    /\ DictGet(priorities, last.obj, last.arg) # last.arg
    /\ DictGet(last_accessed, last.obj, clock) < clock

\* C18 (mark_inactive of an untracked object is a no-op): mark_inactive(o) on
\* a valid object that is a key of none of the three containers raises no
\* error and changes no container, no state (an absent state counting as
\* Inactive), no priority or last-accessed entry and no counter.
C18_MarkInactiveUntrackedNoOp ==
    [][(/\ last'.op = "mark_inactive" /\ last'.obj \in Objects
        /\ ValidateObject(last'.obj, obj_state) = "ok"
        /\ ~Tracked(last'.obj)) =>
            /\ last'.outcome = "ok"
            /\ UNCHANGED <<containers, bookkeeping, obj_last_accessed, tier_transitions,
                           hit_counters, timing, limits, pressure_vars>>
            /\ \A obj \in Objects \ {last'.obj} : obj_state'[obj] = obj_state[obj]
            /\ obj_state'[last'.obj] = StateOf(last'.obj)]_vars

\* C18 witness: mark_inactive has returned for an object that is in no
\* container of the loaded cache, whose three tiers are populated.
C18_Witness ==
    /\ last.op = "mark_inactive" /\ last.outcome = "ok"
    /\ last.obj = First(FreshObjects)
    /\ nsteps = Loaded + 1
    /\ ~Tracked(last.obj) /\ obj_state[last.obj] = "INACTIVE"
    /\ last.obj \notin DOMAIN priorities /\ last.obj \notin DOMAIN last_accessed
    /\ immediate_context # <<>> /\ active_cache # <<>> /\ background_context # <<>>

\* C19 (add_to_background of an Inactive object or an Active resident):
\* add_to_background(o) on an object whose state is Inactive, or that is a key
\* of Active, succeeds; afterwards o is a key of Background and of no other
\* container, o.state is Background, its last-accessed time is the current
\* time and the transition counter has grown by exactly one.
C19_AddToBackgroundSucceeds ==
    [][(/\ last'.op = "add_to_background" /\ last'.obj \in Objects
        /\ (StateOf(last'.obj) = "INACTIVE" \/ Has(active_cache, last'.obj))) =>
            /\ last'.outcome = "ok"
            /\ HoldersAfter(last'.obj) = {"BACKGROUND"}
            /\ obj_state'[last'.obj] = "BACKGROUND"
            /\ last'.obj \in DOMAIN last_accessed'
            /\ last_accessed'[last'.obj] = clock
            /\ obj_last_accessed'[last'.obj] = clock
            /\ tier_transitions' = tier_transitions + 1]_vars

\* C19 witness: an Active resident of the loaded cache, last accessed before
\* the load ended, has been sent to Background by add_to_background.
C19_Witness ==
    /\ last.op = "add_to_background" /\ last.outcome = "ok"
    /\ last.obj = First(ActiveBallast)
    /\ nsteps = Loaded + 1
    /\ Holders(last.obj) = {"BACKGROUND"} /\ obj_state[last.obj] = "BACKGROUND"
    /\ DictGet(last_accessed, last.obj, NoneTime) = clock

\* C19 witness for the other case: a never-seen object has been placed in
\* Background directly.
C19_WitnessInactive ==
    /\ last.op = "add_to_background" /\ last.outcome = "ok"
    /\ last.obj = First(FreshObjects)
    /\ nsteps = Loaded + 1
    /\ Holders(last.obj) = {"BACKGROUND"}

\* the invocations of func so far, and whether the wrapper has ended
Invocations == Len(outcomes)
Ended == wrapper_pc \in {"returned", "raised"}
\* at least one invocation when max_retries >= 0; the first attempt that does
\* not raise is the last invocation, its value is what the wrapper returns,
\* and the only sleeps are those after the failed attempts before it
RetryStopsAtSuccess ==
    /\ (Ended /\ max_retries >= 0) => Invocations >= 1
    /\ \A i \in 1..Invocations : outcomes[i] \in ReturnValues =>
            /\ i = Invocations
            /\ wrapper_pc = "returned" /\ wrapper_result = outcomes[i]
            /\ slept = delay * (i - 1)

C21_RetryFailurePath ==
    /\ (/\ max_retries >= 0 /\ Invocations = max_retries + 1
        /\ \A i \in 1..Invocations : outcomes[i] \in exceptions) =>
            /\ wrapper_pc = "raised"
            /\ wrapper_result = outcomes[Invocations]
            /\ slept = delay * max_retries
    /\ (wrapper_pc = "raised") => slept = delay * (Invocations - 1)
    /\ \A i \in 1..Invocations : outcomes[i] \in Raisable \ exceptions =>
            /\ i = Invocations
            /\ wrapper_pc = "raised" /\ wrapper_result = outcomes[i]

\* C21 witness: with max_retries of at least 2 every attempt raised a listed
\* exception, the last a different one from the first, and the wrapper has
\* raised the last one.
C21_Witness ==
    /\ wrapper_pc = "raised" /\ max_retries >= 2
    /\ Invocations = max_retries + 1
    /\ \A i \in 1..Invocations : outcomes[i] \in exceptions
    /\ outcomes[1] # outcomes[Invocations]
    /\ wrapper_result = outcomes[Invocations]
    /\ slept = delay * max_retries

\* C21 witness for the other case: after one caught exception the function
\* raised one that is not listed, with retries still left.
C21_WitnessUnlisted ==
    /\ wrapper_pc = "raised" /\ max_retries >= 2 /\ Invocations = 2
    /\ outcomes[1] \in exceptions /\ outcomes[2] \notin exceptions
    /\ wrapper_result = outcomes[2]

\* C22 (collector hit rate): hits and misses are counted separately per
\* cache type, and analyze_performance reports, for every cache type with at
\* least one recorded event (hit or miss), the hit rate
\* hits / (hits + misses).
C22_HitRateForEveryRecordedType ==
    reported.called = "analyze_performance" =>
        \A cache_type \in CacheTypes :
            Count(hits, cache_type) + Count(misses, cache_type) > 0 =>
                /\ cache_type \in DOMAIN reported.cache_hit_rate
                /\ reported.cache_hit_rate[cache_type] =
                        Quotient(Count(hits, cache_type),
                                 Count(hits, cache_type) + Count(misses, cache_type))

\* the limits the stated formula gives for a pressure of p hundredths, in
\* exact arithmetic: the factor in ten-thousandths, and
\* max(floor, floor(base * factor))
ClaimedFactor(p) ==
    IF p >= 90 THEN 100 * Max(10, 100 - p)
    ELSE IF p >= 80 THEN 100 * Max(15, 100 - p)
    ELSE (10000 - 15 * p) + Max(0, 12000 - 100 * p)
ClaimedLimit(floor, base, p) == Max(floor, (base * ClaimedFactor(p)) \div 10000)
ClaimedLimits(p) ==
    IF p >= 90 THEN
        <<ClaimedLimit(ExtremeImmediateFloor, BaseImmediateLimit, p),
          ClaimedLimit(ExtremeActiveFloor, BaseActiveLimit, p),
          ClaimedLimit(ExtremeBackgroundFloor, BaseBackgroundLimit, p)>>
    ELSE IF p >= 80 THEN
        <<ClaimedLimit(HighImmediateFloor, BaseImmediateLimit, p),
          ClaimedLimit(HighActiveFloor, BaseActiveLimit, p),
          ClaimedLimit(HighBackgroundFloor, BaseBackgroundLimit, p)>>
    ELSE
        <<ClaimedLimit(NormalImmediateFloor, BaseImmediateLimit, p),
          ClaimedLimit(NormalActiveFloor, BaseActiveLimit, p),
          ClaimedLimit(NormalBackgroundFloor, BaseBackgroundLimit, p)>>

\* C23 (limit formula): after every accepted set_memory_pressure(p) each
\* limit equals max(floor, floor(base * factor)) with the bases 30/200/500,
\* the factor and floors of the regime of p (extreme from 0.9, high from 0.8),
\* whatever the pressures and limits before the call.
C23_LimitsFollowFormula ==
    Accepted(last) => CurrentLimits = ClaimedLimits(last.arg)

\* C24 (staleness demotion): when a rebalance has run to its end no Active
\* member is older than 300 seconds, each such member having been moved to
\* Background even with Active within its limit; and when the rebalance of a
\* set_memory_pressure started with Immediate and Active within their new
\* limits, every Active member aged 300 seconds or less is still in Active.
C24_StaleActiveDemoted ==
    [][(last'.rebalanced /\ last'.outcome = "ok") =>
        /\ \A obj \in Keys(active_cache') :
                clock' - DictGet(last_accessed', obj, 0) <= StaleWindow
        /\ (/\ last'.op = "set_memory_pressure"
            /\ Len(immediate_context) <= immediate_limit'
            /\ Len(active_cache) <= active_limit') =>
                \A obj \in Keys(active_cache) :
                    AgeOf(obj) <= StaleWindow => Has(active_cache', obj)]_vars

\* the ids that are a key of some container
TrackedIds == Keys(immediate_context) \cup Keys(active_cache) \cup Keys(background_context)

\* C25 (eviction only out of Background): over a rebalance that got through
\* its steps 1-3 (Immediate and Active are within their limits) the set of
\* tracked ids shrinks by exactly max(0, size of Background after steps 1-3
\* minus the Background limit) objects (steps 1-3 only move objects down, so
\* that size is what Immediate and Active leave of the tracked objects), every
\* evicted object has state Inactive and is in no container, and no id
\* untracked before the rebalance is tracked after it.
C25_EvictionOnlyFromBackground ==
    [][(/\ last'.rebalanced
        /\ Len(immediate_context') <= immediate_limit'
        /\ Len(active_cache') <= active_limit') =>
        LET before == TrackedIds \cup (IF last'.op = "activate" THEN {last'.obj} ELSE {})
            after == TrackedIds'
        IN  /\ after \subseteq before
            /\ \A obj \in before \ after : obj_state'[obj] = "INACTIVE"
            /\ Cardinality(before \ after) =
                    Max(0, (Cardinality(before) - Len(immediate_context')
                                - Len(active_cache')) - background_limit')]_vars

\* the priority the selector takes for an object, and whether the score
\* age * 1/(priority + 1) of obj1 is at least, or more than, that of obj2
\* (for priorities of 0 or more)
PriorityOf(obj) == DictGet(priorities, obj, 0)
ScoreAtLeast(obj1, obj2) ==
    AgeOf(obj1) * (PriorityOf(obj2) + 1) >= AgeOf(obj2) * (PriorityOf(obj1) + 1)
ScoreAbove(obj1, obj2) == ~ScoreAtLeast(obj2, obj1)

C26_WitnessTie ==
    /\ last.op = "find_demotion_candidate" /\ last.arg = NoneTime
    /\ Len(Container(last.target)) = 2
    /\ last.result = Container(last.target)[1]
    /\ AgeOf(Container(last.target)[1]) > 0
    /\ ScoreAtLeast(Container(last.target)[2], Container(last.target)[1])

\* C27 (bookkeeping only for tracked objects): in every reachable state an
\* id that is a key of none of the three containers has no entry in the
\* priority map and none in the last-accessed map.
C27_BookkeepingOnlyForTracked ==
    \A obj \in (DOMAIN priorities) \cup (DOMAIN last_accessed) : Tracked(obj)

\* C28 (operation counts): every invocation of activate or deactivate adds
\* exactly one to that operation's call count and records exactly one
\* duration sample, and leaves the count and samples of the other operation
\* alone, so the counts of the snapshot are the numbers of invocations.
C28_EveryInvocationCounted ==
    [][last'.op \in {"activate", "deactivate"} =>
        /\ operation_counts' = Timed(operation_counts, last'.op)
        /\ operation_times' = Timed(operation_times, last'.op)]_vars

\* how many single demotions an object is away from leaving the cache, and
\* the sum of it over the tracked objects: a single demotion or eviction
\* lowers the sum by one
Level(obj) ==
    IF Has(immediate_context, obj) THEN 3
    ELSE IF Has(active_cache, obj) THEN 2
    ELSE IF Has(background_context, obj) THEN 1
    ELSE 0
Weight == 3 * Len(immediate_context) + 2 * Len(active_cache) + Len(background_context)
WeightAfter ==
    3 * Len(immediate_context') + 2 * Len(active_cache') + Len(background_context')

\* C29 (transition counter): the counter never decreases and grows by one
\* per single-object placement change: one for an activation into Immediate,
\* for a mark_inactive demotion, an add_to_background insertion, a get
\* promotion and a deactivate of a tracked object, and one for each single
\* demotion or eviction of a rebalance; calls that change no placement and
\* calls that raise leave it unchanged.
C29_TransitionCounter ==
    [][LET grown == tier_transitions' - tier_transitions
       IN  /\ grown >= 0
           /\ last'.outcome # "ok" => grown = 0
           /\ last'.outcome = "ok" =>
                CASE last'.op = "set_memory_pressure" -> grown = Weight - WeightAfter
                  [] last'.op = "activate" ->
                        IF Has(immediate_context, last'.obj) THEN grown = 0
                        ELSE grown = 1 + ((Weight - Level(last'.obj)) + 3) - WeightAfter
                  [] last'.op \in {"mark_inactive", "add_to_background",
                                   "get_object", "deactivate"} ->
                        grown = IF containers' # containers THEN 1 ELSE 0
                  [] OTHER -> grown = 0]_vars

\* C30 (add_to_background of an Immediate or Background object):
\* add_to_background(o) on an object whose state is Immediate or Background
\* is rejected with a transition error; the object stays in its container
\* and nothing in the store changes: not the containers, the priority and
\* last-accessed maps, the objects' states and access times, the limits, the
\* pressure record, the hit and transition counters or the timing tables.
C30_AddToBackgroundRejected ==
    [][(/\ last'.op = "add_to_background" /\ last'.obj \in Objects
        /\ StateOf(last'.obj) \in {"IMMEDIATE", "BACKGROUND"}) =>
            /\ last'.outcome = "StateTransitionError"
            /\ HoldersAfter(last'.obj) = Holders(last'.obj)
            /\ UNCHANGED <<containers, bookkeeping, obj_state, obj_last_accessed,
                           limits, pressure_vars, hit_counters, tier_transitions,
                           timing, last_state_check>>]_vars

\* C30 witness: add_to_background of an Immediate resident of the loaded
\* cache has been refused; the object is still in Immediate, and only there.
C30_Witness ==
    /\ last.op = "add_to_background" /\ last.outcome = "StateTransitionError"
    /\ last.obj = First(ImmediateBallast)
    /\ nsteps = Loaded + 1
    /\ Holders(last.obj) = {"IMMEDIATE"} /\ obj_state[last.obj] = "IMMEDIATE"
    /\ background_context # <<>>

\* C30 witness for the other case: add_to_background of a Background
\* resident has been refused; the object is still in Background.
C30_WitnessBackground ==
    /\ last.op = "add_to_background" /\ last.outcome = "StateTransitionError"
    /\ last.obj = First(BackgroundBallast)
    /\ nsteps = Loaded + 1
    /\ Holders(last.obj) = {"BACKGROUND"} /\ obj_state[last.obj] = "BACKGROUND"

\* C40 (the selector and stored priorities): activate records any integer
\* priority, and for every recorded priority, -1 included,
\* find_demotion_candidate on a non-empty tier completes without error and
\* returns the id of a member of that tier, so that no rebalance fails
\* because of a stored priority.
C40_SelectorNeverFails ==
    [][/\ (last'.op = "activate" /\ last'.outcome = "ok"
            /\ ~Has(immediate_context, last'.obj)) =>
                /\ last'.obj \in DOMAIN priorities'
                /\ priorities'[last'.obj] = last'.arg
       /\ (last'.op = "find_demotion_candidate" /\ Container(last'.target) # <<>>) =>
                /\ last'.outcome = "ok"
                /\ Has(Container(last'.target), last'.result)
       /\ last'.rebalanced => last'.outcome # "ZeroDivisionError"]_vars

\* the ids that are keys of more than one container
Duplicated == {obj_id \in TrackedIds : Cardinality(Holders(obj_id)) > 1}

\* C32 (exclusive ownership relies on the callers' serialization): the
\* manager takes no lock.  As long as every call has run to its end before
\* the next statement of another call ran, no id is a key of two containers
\* and no removal has failed on a key that was already moved; a get_object
\* and an activate for the same id whose statements interleave can reach
\* both (the two witnesses below).
C32_SerializedCallsKeepOwnership ==
    ~interleaved => (Duplicated = {} /\ last.outcome # "KeyError")

\* C32 witness: get_object promoted the object from Background to Active
\* while activate moved it to Immediate; both calls returned without error
\* and the id is a key of Active and of Immediate.
C32_Witness ==
    /\ interleaved /\ Quiet
    /\ race_id \in Duplicated
    /\ Has(active_cache, race_id) /\ Has(immediate_context, race_id)
    /\ last.outcome = "ok"

\* C32 witness for the failed removal: get_object found the id in Active,
\* activate moved it to Immediate, and the pop in get_object raised KeyError.
C32_WitnessFailedRemoval ==
    /\ interleaved /\ get_pc = "done"
    /\ last.op = "get_object" /\ last.outcome = "KeyError"
    /\ Duplicated = {}

\* C31 (corruption detection): when mark_inactive, or deactivate of an
\* object that is not Inactive, runs the consistency check (the check is
\* not skipped by its rate limit) on a store where some id is a key of two
\* or more containers, the call ends with a corrupt-state error whose
\* affected ids are exactly the ids present in more than one container, and
\* no container is changed; when no id is duplicated the call raises no
\* corrupt-state error.
C31_CorruptionDetected ==
    [][(/\ nsteps' # nsteps
        /\ last'.op \in {"mark_inactive", "deactivate"}
        /\ ValidateObject(last'.obj, obj_state) = "ok"
        /\ (last'.op = "deactivate" => StateOf(last'.obj) # "INACTIVE")
        /\ ~CheckSkipped(clock)) =>
            IF Duplicated # {}
                THEN /\ last'.outcome = "CorruptStateError"
                     /\ last'.affected = Duplicated
                     /\ UNCHANGED containers
                ELSE last'.outcome # "CorruptStateError"]_vars

\* C31 witness: after an interleaved get_object and activate left an id in
\* Active and in Immediate, mark_inactive has ended with a corrupt-state
\* error naming that id, and the id is still in both containers.
C31_Witness ==
    /\ last.op = "mark_inactive" /\ last.outcome = "CorruptStateError"
    /\ last.affected = {race_id}
    /\ Holders(race_id) = {"IMMEDIATE", "ACTIVE"}

\* C31 witness for deactivate: the same store, deactivate of the duplicated
\* object.
C31_WitnessDeactivate ==
    /\ last.op = "deactivate" /\ last.outcome = "CorruptStateError"
    /\ last.obj = race_id /\ last.affected = {race_id}
    /\ Holders(race_id) = {"IMMEDIATE", "ACTIVE"}

\* the tier whose container holds obj_id, INACTIVE when none does, before
\* and after the step
TierOf(obj_id) ==
    IF Has(immediate_context, obj_id) THEN "IMMEDIATE"
    ELSE IF Has(active_cache, obj_id) THEN "ACTIVE"
    ELSE IF Has(background_context, obj_id) THEN "BACKGROUND"
    ELSE "INACTIVE"
TierAfter(obj_id) ==
    IF Has(immediate_context', obj_id) THEN "IMMEDIATE"
    ELSE IF Has(active_cache', obj_id) THEN "ACTIVE"
    ELSE IF Has(background_context', obj_id) THEN "BACKGROUND"
    ELSE "INACTIVE"
\* the ids that have left or entered a container in the step
Changed(before, after) == (Keys(before) \ Keys(after)) \cup (Keys(after) \ Keys(before))
Moved ==
    Changed(immediate_context, immediate_context')
        \cup Changed(active_cache, active_cache')
        \cup Changed(background_context, background_context')
\* the move is in the validator table
Legal(from, to) == to \in valid_transitions[from]
\* where a single demotion of the rebalance takes a member of the tier
Below(tier) ==
    CASE tier = "IMMEDIATE" -> "ACTIVE"
      [] tier = "ACTIVE" -> "BACKGROUND"
      [] tier = "BACKGROUND" -> "INACTIVE"
RECURSIVE LegalDescent(_, _)
\* to is reached from the tier from by single demotions, each of them legal
LegalDescent(from, to) ==
    \/ from = to
    \/ /\ from # "INACTIVE"
       /\ Legal(from, Below(from))
       /\ LegalDescent(Below(from), to)

\* C33 (every move is legal): every single container-to-container move the
\* cache performs is in the validator table, also the moves made without
\* asking the validator.  A call that does not rebalance moves at most its
\* own object, by a legal move (a get promotion Active -> Immediate or
\* Background -> Active, a deactivate from any tier to Inactive, a
\* placement).  A rebalance takes every object it moves down by single
\* demotions Immediate -> Active, Active -> Background, Background ->
\* Inactive, each legal and each counted once by the transition counter.
C33_EveryMoveLegal ==
    [][nsteps' # nsteps =>
        /\ \A obj_id \in Moved :
                IF last'.rebalanced
                    THEN IF last'.op = "activate" /\ obj_id = last'.obj
                            THEN /\ Legal(TierOf(obj_id), "IMMEDIATE")
                                 /\ LegalDescent("IMMEDIATE", TierAfter(obj_id))
                            ELSE LegalDescent(TierOf(obj_id), TierAfter(obj_id))
                    ELSE \/ TierOf(obj_id) = TierAfter(obj_id)
                         \/ /\ Legal(TierOf(obj_id), TierAfter(obj_id))
                            /\ obj_id = last'.obj \/ obj_id = last'.result
        /\ last'.rebalanced =>
                tier_transitions' - tier_transitions =
                    IF last'.op = "activate"
                        THEN 1 + ((Weight - Level(last'.obj)) + 3) - WeightAfter
                        ELSE Weight - WeightAfter]_vars

\* C33 witness: a rebalance has demoted members of Immediate and of Active
\* and evicted members of Background.
C33_Witness ==
    /\ last.op = "set_memory_pressure" /\ last.rebalanced /\ last.outcome = "ok"
    /\ nsteps = Loaded + 1
    /\ Len(immediate_context) < NumImmediateBallast
    /\ \E obj_id \in ImmediateBallast : ~Has(immediate_context, obj_id)
    /\ \E obj_id \in ActiveBallast : Has(background_context, obj_id)
    /\ \E obj_id \in BackgroundBallast : obj_id \notin TrackedIds

\* C33 witness for the promotions: a get has promoted a Background resident
\* of the loaded cache to Active.
C33_WitnessPromotion ==
    /\ last.op = "get_object" /\ last.result = First(BackgroundBallast)
    /\ Has(active_cache, First(BackgroundBallast))

\* C33 witness for deactivate: a Background resident has been deactivated.
C33_WitnessDeactivate ==
    /\ last.op = "deactivate" /\ last.outcome = "ok"
    /\ last.obj = First(BackgroundBallast)
    /\ First(BackgroundBallast) \notin TrackedIds

\* C34 (Immediate within its limit between calls): at the return of every
\* public operation, in any sequence of activate, mark_inactive,
\* add_to_background, deactivate, get_object and set_memory_pressure calls
\* made one after the other, the size of the Immediate container is at most
\* the current Immediate limit.
C34_ImmediateWithinLimit == Len(immediate_context) <= immediate_limit

\* C35 (mark_inactive and add_to_background move their object only):
\* neither call runs a rebalance; the other members of every container stay
\* where they were, in their order, and the state of every other object is
\* unchanged, also when the call leaves its destination tier (Active or
\* Background) above the current limit.
C35_OnlyTheObjectMoves ==
    [][(nsteps' # nsteps /\ last'.op \in {"mark_inactive", "add_to_background"}) =>
        /\ ~last'.rebalanced
        /\ \A tier \in Tier :
                Others(Container(tier)', last'.obj) = Others(Container(tier), last'.obj)
        /\ \A obj \in Objects \ {last'.obj} : obj_state'[obj] = obj_state[obj]
        /\ UNCHANGED limits]_vars

\* C35 witness: under pressure 0.95 the rebalances have brought Active down
\* to its limit; mark_inactive of an Immediate resident then leaves Active
\* one above the limit.
C35_Witness ==
    /\ last.op = "mark_inactive" /\ last.outcome = "ok"
    /\ memory_pressure = 95
    /\ Has(active_cache, last.obj)
    /\ Len(active_cache) = active_limit + 1

\* C35 witness for add_to_background: Background is at its limit and an
\* Active resident is sent to it.
C35_WitnessBackground ==
    /\ last.op = "add_to_background" /\ last.outcome = "ok"
    /\ memory_pressure = 95
    /\ Has(background_context, last.obj)
    /\ Len(background_context) = background_limit + 1

\* the limits in force, as set_memory_pressure computes them
LimitsInForce ==
    [immediate |-> immediate_limit, active |-> active_limit,
     background |-> background_limit]
\* each limit of the record tighter is at most the same limit of looser
AtMost(tighter, looser) ==
    /\ tighter.immediate <= looser.immediate
    /\ tighter.active <= looser.active
    /\ tighter.background <= looser.background

\* C36 (limits fall as pressure rises): for accepted pressures p1 <= p2 each
\* of the three limits set_memory_pressure(p2) computes is at most the limit
\* set_memory_pressure(p1) computes, within a regime and from one regime to
\* the next.  Stated on the limits the last accepted call has left: no lower
\* pressure computes a smaller limit and no higher pressure a larger one.
C36_LimitsMonotone ==
    memory_pressure_history # <<>> =>
        \A pressure \in AcceptedPressures :
            /\ pressure <= memory_pressure => AtMost(LimitsInForce, LimitsOf[pressure])
            /\ pressure >= memory_pressure => AtMost(LimitsOf[pressure], LimitsInForce)

\* C36 witness: pressure 0.85 (high regime) and then 0.95 (extreme regime);
\* every limit is strictly below what it was under 0.85.
C36_Witness ==
    /\ memory_pressure_history = <<85, 95>>
    /\ immediate_limit < LimitsOf[85].immediate
    /\ active_limit < LimitsOf[85].active
    /\ background_limit < LimitsOf[85].background

\* C36 witness within a regime: 0.79 after 0.0, both normal pressures.
C36_WitnessWithinRegime ==
    /\ memory_pressure_history = <<0, 79>>
    /\ immediate_limit < LimitsOf[0].immediate
    /\ immediate_limit > LimitsOf[80].immediate

\* C37 (get refreshes the access time on an Immediate hit only): a get that
\* hits Active or Background, whether it promotes the object or not, leaves
\* the recorded last-accessed time and the priority of that id as they
\* were, as does a miss; a hit in Immediate stamps the id with the current
\* time; and no get changes the order of the other entries of a container.
C37_GetRefreshesOnImmediateHitOnly ==
    [][(nsteps' # nsteps /\ last'.op = "get_object") =>
        /\ priorities' = priorities
        /\ IF Has(immediate_context, last'.obj)
              THEN /\ last_accessed' = DictSet(last_accessed, last'.obj, clock)
                   /\ obj_last_accessed'[last'.obj] = clock
              ELSE /\ last_accessed' = last_accessed
                   /\ obj_last_accessed' = obj_last_accessed
        /\ \A tier \in Tier :
                Others(Container(tier)', last'.obj) = Others(Container(tier), last'.obj)]_vars

\* C37 witness: a get has promoted an Active resident of the loaded cache to
\* Immediate; its recorded access time is still the earlier one.
C37_Witness ==
    /\ last.op = "get_object" /\ last.result = First(ActiveBallast)
    /\ nsteps = Loaded + 1
    /\ Has(immediate_context, First(ActiveBallast))
    /\ First(ActiveBallast) \in DOMAIN last_accessed
    /\ last_accessed[First(ActiveBallast)] < clock
    /\ obj_last_accessed[First(ActiveBallast)] < clock

\* C37 witness without promotion: under pressure 0.95 Immediate is full, and
\* a get that hits Active leaves the object there, its access time as it
\* was.
C37_WitnessNotPromoted ==
    /\ last.op = "get_object" /\ last.result = First(ActiveBallast)
    /\ Has(active_cache, First(ActiveBallast))
    /\ Len(immediate_context) >= immediate_limit
    /\ last_accessed[First(ActiveBallast)] < clock

\* the single demotions and evictions of the rebalance the step has run
Demotions ==
    (tier_transitions' - tier_transitions) - (IF last'.op = "activate" THEN 1 ELSE 0)
\* the level of the tier an object is in after the step
LevelAfter(obj) ==
    IF Has(immediate_context', obj) THEN 3
    ELSE IF Has(active_cache', obj) THEN 2
    ELSE IF Has(background_context', obj) THEN 1
    ELSE 0

\* C38 (a rebalance ends after one pass over its four steps): in every
\* iteration the selector returns a member of the over-limit tier and that
\* member leaves the tier, so that the rebalance runs to its end; no step
\* adds to a tier an earlier step has handled, so that after the pass every
\* tier is within its limit and every object the rebalance moved is lower
\* than before; and the demotions of one rebalance are at most three times
\* the tracked objects.
C38_RebalanceSinglePass ==
    [][(nsteps' # nsteps /\ last'.rebalanced) =>
        /\ last'.outcome = "ok"
        /\ Len(immediate_context') <= immediate_limit'
        /\ Len(active_cache') <= active_limit'
        /\ Len(background_context') <= background_limit'
        /\ \A obj_id \in Moved \ {last'.obj} : LevelAfter(obj_id) < Level(obj_id)
        /\ Demotions >= 0
        /\ Demotions <= 3 * Cardinality(TrackedIds \cup {last'.obj})]_vars

\* C39 (the object just activated stays in Immediate): after activate(o,
\* priority) has returned without error o is a key of Immediate, also when
\* the call took Immediate over its limit and ran a rebalance: the
\* rebalance never demotes o, whatever the priorities and ages of the other
\* members of Immediate.
C39_ActivatedStaysImmediate ==
    [][(nsteps' # nsteps /\ last'.op = "activate" /\ last'.outcome = "ok") =>
            /\ Has(immediate_context', last'.obj)
            /\ obj_state'[last'.obj] = "IMMEDIATE"]_vars

====
